---- MODULE Spec2Model ----
(***************************************************************************)
(* Model of the Secure Log Analysis Tool: the log-line parser              *)
(* (LogUploadSection.parseLogText), the masking engine (App.maskHeaders,   *)
(* App.maskUrl, App.maskSensitiveData) and the App component's state with  *)
(* its asynchronous handlers.                                              *)
(*                                                                         *)
(* A JavaScript string is a sequence of one-character strings, so that     *)
(* every regular expression of the source is evaluated character by        *)
(* character.  An optional field (component?, url?, ...) is <<>> when it   *)
(* is undefined and <<v>> when it holds the value v.                       *)
(***************************************************************************)
EXTENDS Integers, Sequences, FiniteSets, TLC

-----------------------------------------------------------------------------
(* Characters *)

Digit == {"0","1","2","3","4","5","6","7","8","9"}
DigitSeq == <<"0","1","2","3","4","5","6","7","8","9">>
LowerSeq == <<"a","b","c","d","e","f","g","h","i","j","k","l","m","n","o","p","q","r","s","t","u","v","w","x","y","z">>
UpperSeq == <<"A","B","C","D","E","F","G","H","I","J","K","L","M","N","O","P","Q","R","S","T","U","V","W","X","Y","Z">>
Lower == {LowerSeq[i] : i \in 1..26}
Upper == {UpperSeq[i] : i \in 1..26}
Alpha == Lower \cup Upper
AlphaNum == Alpha \cup Digit
\* \w of a JavaScript regular expression
WordChar == AlphaNum \cup {"_"}
\* \s of a JavaScript regular expression, and what String.prototype.trim strips
WhiteSpace == {" ", "\t", "\r", "\n", "\f"}
HexDigit == Digit \cup {"a","b","c","d","e","f","A","B","C","D","E","F"}

toUpperCaseChar(c) == IF c \in Lower THEN UpperSeq[CHOOSE i \in 1..26 : LowerSeq[i] = c] ELSE c
toLowerCaseChar(c) == IF c \in Upper THEN LowerSeq[CHOOSE i \in 1..26 : UpperSeq[i] = c] ELSE c
toUpperCase(s) == [k \in 1..Len(s) |-> toUpperCaseChar(s[k])]
toLowerCase(s) == [k \in 1..Len(s) |-> toLowerCaseChar(s[k])]

Undefined == <<>>
Some(v) == <<v>>

\* s.slice(a - 1, b - 1): the characters at positions a .. b-1 (1-based)
Slice(s, a, b) == IF b > a THEN SubSeq(s, a, b - 1) ELSE <<>>

RECURSIVE Flatten(_)
Flatten(ss) == IF Len(ss) = 0 THEN <<>> ELSE Head(ss) \o Flatten(Tail(ss))

\* String.prototype.includes
includes(s, w) == \E i \in 1..(Len(s) - Len(w) + 1) : Slice(s, i, i + Len(w)) = w

\* the positions of s that hold a character which is not white space
NonSpaceAt(s) == {i \in 1..Len(s) : s[i] \notin WhiteSpace}
\* String.prototype.trim
trim(s) ==
  LET at == NonSpaceAt(s)
  IN IF at = {} THEN <<>>
     ELSE Slice(s, CHOOSE i \in at : \A j \in at : i <= j, (CHOOSE i \in at : \A j \in at : j <= i) + 1)

\* String.prototype.split with a one-character separator
\* the positions of s that hold the separator, and the k-th of them
SepAt(s, sep) == {i \in 1..Len(s) : s[i] = sep}
NthSep(s, sep, k) == CHOOSE i \in SepAt(s, sep) : Cardinality({j \in SepAt(s, sep) : j < i}) = k - 1
split(s, sep) ==
  LET n == Cardinality(SepAt(s, sep))
  IN [k \in 1..(n + 1) |->
        Slice(s, IF k = 1 THEN 1 ELSE NthSep(s, sep, k - 1) + 1,
                 IF k = n + 1 THEN Len(s) + 1 ELSE NthSep(s, sep, k))] \o <<>>

\* Array.prototype.join with a one-character separator
RECURSIVE join(_, _)
join(ss, sep) ==
  IF Len(ss) = 0 THEN <<>>
  ELSE IF Len(ss) = 1 THEN ss[1]
  ELSE ss[1] \o <<sep>> \o join(Tail(ss), sep)

\* Number.prototype.toString for a natural number
RECURSIVE ToDecimal(_)
ToDecimal(n) == IF n < 10 THEN <<DigitSeq[n + 1]>> ELSE ToDecimal(n \div 10) \o <<DigitSeq[(n % 10) + 1]>>
DigitVal(c) == (CHOOSE i \in 1..10 : DigitSeq[i] = c) - 1
\* n written with at least w digits (String.prototype.padStart(w, "0"))
RECURSIVE Pad(_, _)
Pad(ds, w) == IF Len(ds) >= w THEN ds ELSE Pad(<<"0">> \o ds, w)

-----------------------------------------------------------------------------
(* Regular expressions.  A pattern is a sequence of nodes; Exec is the      *)
(* backtracking matcher of ECMAScript: alternatives are tried left to       *)
(* right, quantifiers are greedy, and the first successful path is the      *)
(* match.                                                                   *)

Ch(S) == [t |-> "ch", s |-> S]
NCh(S) == [t |-> "nch", s |-> S]
Alt(a) == [t |-> "alt", a |-> a]
Rep(r, lo, hi) == [t |-> "rep", r |-> r, lo |-> lo, hi |-> hi]
Inf == -1
Star(r) == Rep(r, 0, Inf)
Plus(r) == Rep(r, 1, Inf)
Opt(r) == Rep(r, 0, 1)
WB == [t |-> "wb"]
BOL == [t |-> "bol"]
GroupOpen == [t |-> "open"]
GroupClose == [t |-> "close"]
\* a literal, and a literal under the i flag
Lit(w) == [k \in 1..Len(w) |-> Ch({w[k]})]
LitI(w) == [k \in 1..Len(w) |-> Ch({toLowerCaseChar(w[k]), toUpperCaseChar(w[k])})]
\* \d{n}
D(n) == Rep(<<Ch(Digit)>>, n, n)

NoMatch == <<>>
IsWordAt(s, i) == i >= 1 /\ i <= Len(s) /\ s[i] \in WordChar

\* a repeated pattern that is one character class
IsClass(r) == Len(r) = 1 /\ r[1].t \in {"ch", "nch"}
Accepts(c, ch) == IF c.t = "ch" THEN ch \in c.s ELSE ch \notin c.s
\* the number of characters from position i on that a greedy repetition of
\* class c with upper bound hi takes
RunLen(c, s, i, hi) ==
  LET room == IF i > Len(s) THEN 0 ELSE Len(s) - i + 1
      most == IF hi = Inf \/ hi > room THEN room ELSE hi
  IN CHOOSE m \in 0..most :
       /\ \A k \in 0..(m - 1) : Accepts(c, s[i + k])
       /\ m = most \/ ~Accepts(c, s[i + m])

\* the match of pattern rs against s at position i: <<end, group 1 start,
\* group 1 end>> (end exclusive), or NoMatch
RECURSIVE Exec(_, _, _, _)
\* backtracking of a greedy class repetition that can take k characters and
\* needs lo: the match of the rest of the pattern after the most characters
\* that let it match
RECURSIVE Backoff(_, _, _, _, _, _)
Backoff(rest, s, i, cap, lo, k) ==
  IF k < lo THEN NoMatch
  ELSE LET r == Exec(rest, s, i + k, cap)
       IN IF r # NoMatch THEN r ELSE Backoff(rest, s, i, cap, lo, k - 1)
Exec(rs, s, i, cap) ==
  IF Len(rs) = 0 THEN <<i, cap[1], cap[2]>>
  ELSE LET n == Head(rs)
           rest == Tail(rs)
       IN CASE n.t = "ch" -> IF i <= Len(s) /\ s[i] \in n.s THEN Exec(rest, s, i + 1, cap) ELSE NoMatch
            [] n.t = "nch" -> IF i <= Len(s) /\ s[i] \notin n.s THEN Exec(rest, s, i + 1, cap) ELSE NoMatch
            [] n.t = "alt" -> IF Len(n.a) = 0 THEN NoMatch
                              ELSE LET r == Exec(Head(n.a) \o rest, s, i, cap)
                                   IN IF r # NoMatch THEN r ELSE Exec(<<Alt(Tail(n.a))>> \o rest, s, i, cap)
            [] n.t = "rep" -> IF IsClass(n.r)
                              THEN Backoff(rest, s, i, cap, n.lo, RunLen(n.r[1], s, i, n.hi))
                              ELSE IF n.lo > 0
                              THEN Exec(n.r \o <<Rep(n.r, n.lo - 1, IF n.hi = Inf THEN Inf ELSE n.hi - 1)>> \o rest, s, i, cap)
                              ELSE IF n.hi = 0 THEN Exec(rest, s, i, cap)
                              ELSE LET r == Exec(n.r \o <<Rep(n.r, 0, IF n.hi = Inf THEN Inf ELSE n.hi - 1)>> \o rest, s, i, cap)
                                   IN IF r # NoMatch THEN r ELSE Exec(rest, s, i, cap)
            [] n.t = "wb" -> IF IsWordAt(s, i - 1) # IsWordAt(s, i) THEN Exec(rest, s, i, cap) ELSE NoMatch
            [] n.t = "bol" -> IF i = 1 THEN Exec(rest, s, i, cap) ELSE NoMatch
            [] n.t = "open" -> Exec(rest, s, i, <<i, cap[2]>>)
            [] n.t = "close" -> Exec(rest, s, i, <<cap[1], i>>)

\* the match of re at every position of s, 1 .. Len(s) + 1
MatchTable(re, s) == [j \in 1..(Len(s) + 1) |-> Exec(re, s, j, <<0, 0>>)] \o <<>>
\* the leftmost position from i on with a match in table t, Len(t) + 1 if none
FirstHit(t, i) ==
  CHOOSE j \in i..(Len(t) + 1) :
    /\ j = Len(t) + 1 \/ t[j] # NoMatch
    /\ \A k \in i..(j - 1) : t[k] = NoMatch
\* the leftmost match from position i on: [index, end, g1, g1end]
MatchIn(t, i) ==
  LET j == FirstHit(t, i)
  IN IF j > Len(t) THEN NoMatch ELSE <<j, t[j][1], t[j][2], t[j][3]>>
\* String.prototype.match without the g flag
match(s, re) == MatchIn(MatchTable(re, s), 1)
\* match[0] and match[1] of a successful match
Group0(s, m) == Slice(s, m[1], m[2])
Group1(s, m) == Slice(s, m[3], m[4])
\* RegExp.prototype.test
test(re, s) == match(s, re) # NoMatch

\* the matches a g-flag replace visits: non-overlapping, left to right; after
\* an empty match the search resumes one position further
RECURSIVE MatchesIn(_, _)
MatchesIn(t, i) ==
  LET m == MatchIn(t, i)
  IN IF m = NoMatch THEN <<>>
     ELSE LET next == IF m[2] > m[1] THEN m[2] ELSE m[1] + 1
          IN <<m>> \o (IF next > Len(t) THEN <<>> ELSE MatchesIn(t, next))
MatchAll(re, s, i) == MatchesIn(MatchTable(re, s), i)

\* s with the spans ms replaced by the texts reps (one per span)
RECURSIVE Subst(_, _, _, _)
Subst(s, ms, reps, pos) ==
  IF Len(ms) = 0 THEN Slice(s, pos, Len(s) + 1)
  ELSE Slice(s, pos, ms[1][1]) \o reps[1] \o Subst(s, Tail(ms), Tail(reps), ms[1][2])

\* s.replace(/re/g, rep) with a replacement text without $ patterns
replaceAll(s, re, rep) ==
  LET ms == MatchAll(re, s, 1)
  IN Subst(s, ms, [k \in 1..Len(ms) |-> rep], 1)

-----------------------------------------------------------------------------
(* Inputs: the bounded sets the texts given to parseLogText and the messages  *)
(* given to maskSensitiveData are drawn from                                 *)

MaxLines == 3
MaxToks == 2
MaxClock == 1
MaxFaults == 1

\* the words lines are made of: level keywords in several letter cases, a
\* word that only contains a keyword, and a plain word
ParseWords == {<<"W","A","R","N","I","N","G">>, <<"c","r","i","t","i","c","a","l">>, <<"F","a","t","a","l">>, <<"t","r","a","c","e">>, <<"E","R","R","O","R">>, <<"d","e","b","u","g">>, <<"w","a","r","n","i","n","g","s">>, <<"x","1">>}
\* whole lines: blank ones, one with a carriage return, and lines with a
\* timestamp, a component, a URL, a response code and headers
ShortLines ==
  {<<>>, <<" "," ">>, <<" ","u","p"," ","2","0","0","\r">>, <<"[","A","u","t","h","]"," ","e","r","r","o","r"," ","/","a","?","t","o","k","e","n","=","x","1"," ","5","0","0">>, <<"2","0","2","4","-","0","1","-","1","5"," ","1","0",":","3","0",":","4","5"," ","W","A","R","N"," ","h","e","a","d","e","r","s",":"," ","{","A","p","i","-","K","e","y",":","k","1",","," ","a",":","b","}">>}

\* the sequences over S of length at most n
RECURSIVE SeqsUpTo(_, _)
SeqsUpTo(S, n) ==
  IF n = 0 THEN {<<>>}
  ELSE LET shorter == SeqsUpTo(S, n - 1)
       IN shorter \cup {Append(q, x) : q \in {r \in shorter : Len(r) = n - 1}, x \in S}

WordLines == {join(ws, " ") : ws \in SeqsUpTo(ParseWords, MaxToks) \ {<<>>}}
\* single lines with several candidates for one field: components of several
\* families in several orders, and digit runs of 13 and of 14 digits with and
\* without a timestamp of another family
FieldLines ==
  {<<"U","s","e","r","C","o","n","t","r","o","l","l","e","r"," ","[","A","u","t","h","S","e","r","v","i","c","e","]"," ","h","a","n","d","l","e","d">>, <<"l","o","g","g","e","r","=","d","b"," ","[","A","u","t","h","]"," ","x","1">>, <<"a","p","p",":"," ","[","A","u","t","h","]"," ","x","1">>, <<"[","]"," ","[","A","u","t","h","]"," ","x","1">>,
   <<"U","s","e","r","C","o","n","t","r","o","l","l","e","r"," ","c","l","a","s","s","=","F","o","o">>, <<"c","l","a","s","s","=","F","o","o"," ","l","o","g","g","e","r",":"," ","d","b">>, <<"a","p","p",":"," ","c","l","a","s","s"," ","F","o","o">>, <<"a","p","p",":"," ","x","1">>,
   <<"a","t"," ","1","7","0","0","0","0","0","0","0","0","0","0","0"," ","u","p">>, <<"i","d"," ","1","7","0","0","0","0","0","0","0","0","0","0","0","1"," ","u","p">>, <<"2","0","2","4","-","0","1","-","1","5"," ","1","0",":","3","0",":","4","5"," ","1","7","0","0","0","0","0","0","0","0","0","0","0">>, <<"J","a","n"," ","5"," ","1","0",":","3","0",":","4","5"," ","1","7","0","0","0","0","0","0","0","0","0","0","0">>,
   <<"g","e","t"," ","f","t","p",":","/","/","h","o","s","t","/","f","i","l","e"," ","o","k">>, <<"x","1"," ","/","a","/","b"," ","h","t","t","p",":","/","/","y",".","i","o","/","b",";","c">>, <<"s","e","e"," ","H","T","T","P",":","/","/","x",".","i","o","/","a">>, <<"x","1"," ","u","p">>,
   <<"h","e","a","d","e","r","s",":"," ","{","H","o","s","t",":"," ","h",".","i","o",":","8","0","8","0","}">>, <<"H","e","a","d","e","r","=","{","'","a","'",":"," ","\"","b","\"",","," ","c",","," ",":","d",","," ","e",":","}">>}
Texts ==
  {join(ls, "\n") : ls \in SeqsUpTo(ShortLines, MaxLines) \ {<<>>}} \cup WordLines \cup FieldLines

\* every line a text of Texts can hold
\* the texts a user submits to the application
UploadTexts ==
  {<<"[","A","u","t","h","]"," ","e","r","r","o","r"," ","/","a","?","t","o","k","e","n","=","x","1"," ","5","0","0","\n"," ","u","p"," ","2","0","0","\r">>,
   <<"2","0","2","4","-","0","1","-","1","5"," ","1","0",":","3","0",":","4","5"," ","W","A","R","N"," ","h","e","a","d","e","r","s",":"," ","{","A","p","i","-","K","e","y",":","k","1",","," ","a",":","b","}">>,
   <<"x","1"," ","p","a","s","s","w","o","r","d","=","s","e","c","r","e","t","1","2","3">>}
\* the texts the analysis service returns
AiResults == {<<"o","k">>}
\* the messages of the errors analyzeLogsWithOpenAI throws for a request that
\* was sent: fetch rejected, response not OK, response without content
ServiceErrors ==
  {<<"F","a","i","l","e","d"," ","t","o"," ","f","e","t","c","h">>, <<"O","p","e","n","A","I"," ","A","P","I"," ","e","r","r","o","r"," ","(","4","0","1",")",":"," ","U","n","a","u","t","h","o","r","i","z","e","d">>, <<"I","n","v","a","l","i","d"," ","r","e","s","p","o","n","s","e"," ","f","o","r","m","a","t"," ","f","r","o","m"," ","O","p","e","n","A","I">>}
KnownLines ==
  ShortLines \cup WordLines \cup FieldLines \cup UNION {{split(t, "\n")[k] : k \in 1..Len(split(t, "\n"))} : t \in UploadTexts}

\* the words messages are made of: a password pair, its value alone, the value
\* as a host name in capitals and with a percent escape, an address as a host,
\* a relative URL with a query, a connection string pair, a key pair written
\* with capitals, a hyphen and a colon, and a URL with credentials
MaskWords ==
  {<<"p","a","s","s","w","o","r","d","=","s","e","c","r","e","t","1","2","3">>, <<"s","e","c","r","e","t","1","2","3">>, <<"h","t","t","p",":","/","/","S","E","C","R","E","T","1","2","3","/","x">>, <<"h","t","t","p",":","/","/","%","7","3","e","c","r","e","t","1","2","3","/">>, <<"h","t","t","p",":","/","/","1","0",".","0",".","0",".","5","/","p","a","t","h">>,
   <<"/","p","?","p","a","s","s","w","o","r","d","=","s","e","c","r","e","t","1","2","3","&","x","=","1">>, <<"u","s","e","r","=","b","o","b">>, <<"A","p","i","-","K","e","y",":","k","1","x">>, <<"h","t","t","p",":","/","/","u",":","p","@","h",".","i","o","/">>}
Messages == {join(ws, " ") : ws \in SeqsUpTo(MaskWords, MaxToks) \ {<<>>}}

-----------------------------------------------------------------------------
(* Date: new Date(ms).toISOString() for a 13-digit millisecond count.  The  *)
(* count does not fit a machine integer, so it is divided digit by digit.   *)

\* <<quotient, remainder>> of the decimal number ds by d
RECURSIVE LongDiv(_, _, _, _)
LongDiv(ds, d, q, r) ==
  IF Len(ds) = 0 THEN <<q, r>>
  ELSE LET cur == r * 10 + DigitVal(Head(ds))
       IN LongDiv(Tail(ds), d, q * 10 + (cur \div d), cur % d)

\* the civil date <<year, month, day>> of a day count since 1970-01-01
CivilFromDays(days) ==
  LET z == days + 719468
      era == z \div 146097
      doe == z - era * 146097
      yoe == (doe - (doe \div 1460) + (doe \div 36524) - (doe \div 146096)) \div 365
      doy == doe - (365 * yoe + (yoe \div 4) - (yoe \div 100))
      mp == (5 * doy + 2) \div 153
      d == doy - ((153 * mp + 2) \div 5) + 1
      m == IF mp < 10 THEN mp + 3 ELSE mp - 9
      y == yoe + era * 400 + (IF m <= 2 THEN 1 ELSE 0)
  IN <<y, m, d>>

toISOString(ms13) ==
  LET qr == LongDiv(Slice(ms13, 1, 11), 86400, 0, 0)
      ymd == CivilFromDays(qr[1])
      sod == qr[2]
  IN Pad(ToDecimal(ymd[1]), 4) \o <<"-">> \o Pad(ToDecimal(ymd[2]), 2) \o <<"-">> \o Pad(ToDecimal(ymd[3]), 2)
     \o <<"T">> \o Pad(ToDecimal(sod \div 3600), 2) \o <<":">> \o Pad(ToDecimal((sod % 3600) \div 60), 2)
     \o <<":">> \o Pad(ToDecimal(sod % 60), 2) \o <<".">> \o Slice(ms13, 11, 14) \o <<"Z">>

\* The wall clock.  A reading is a number of milliseconds after ClockBase
\* (1767225600000 ms, 2026-01-01T00:00:00.000Z); new Date().toISOString()
\* at reading k:
ClockBase == <<"1","7","6","7","2","2","5","6","0","0","0","0">>
NowISO(k) == toISOString(ClockBase \o <<DigitSeq[k + 1]>>)

-----------------------------------------------------------------------------
(* LogUploadSection.parseLogText *)

TimestampPattern1 ==
  <<GroupOpen, D(4), Ch({"-"}), D(2), Ch({"-"}), D(2), Ch({"T"} \cup WhiteSpace), D(2), Ch({":"}), D(2), Ch({":"}), D(2),
    Opt(<<Ch({"."}), D(3)>>),
    Opt(<<Alt(<< <<Ch({"Z"})>>, <<Ch({"+", "-"}), D(2), Ch({":"}), D(2)>> >>)>>), GroupClose>>
TimestampPattern2 ==
  <<GroupOpen, D(2), Ch({"/"}), D(2), Ch({"/"}), D(4), Plus(<<Ch(WhiteSpace)>>), D(2), Ch({":"}), D(2), Ch({":"}), D(2), GroupClose>>
TimestampPattern3 ==
  <<GroupOpen, Rep(<<Ch(WordChar)>>, 3, 3), Plus(<<Ch(WhiteSpace)>>), Rep(<<Ch(Digit)>>, 1, 2), Plus(<<Ch(WhiteSpace)>>),
    D(2), Ch({":"}), D(2), Ch({":"}), D(2), GroupClose>>
TimestampPattern4 == <<GroupOpen, D(13), GroupClose>>
timestampPatterns == <<TimestampPattern1, TimestampPattern2, TimestampPattern3, TimestampPattern4>>

\* /^\d{13}$/.test(t)
IsEpochMillis(t) == Len(t) = 13 /\ \A k \in 1..13 : t[k] \in Digit

\* the for loop over timestampPatterns: the first pattern that matches wins;
\* Undefined when none does and the initial value stays
RECURSIVE TimestampFrom(_, _)
TimestampOfMatch(t) == IF IsEpochMillis(t) THEN toISOString(t) ELSE t
TimestampAt(line, k, m) == IF m # NoMatch THEN Some(TimestampOfMatch(Group1(line, m))) ELSE TimestampFrom(line, k + 1)
TimestampFrom(line, k) ==
  IF k > Len(timestampPatterns) THEN Undefined ELSE TimestampAt(line, k, match(line, timestampPatterns[k]))
\* variant of ExtractTimestamp with a defect: the patterns are not tried and
\* the initial value, the clock reading, always stays
ExtractTimestampNever(line) == Undefined
ExtractTimestamp(line) == TimestampFrom(line, 1)

LevelPattern ==
  <<WB, GroupOpen,
    Alt(<<LitI(<<"T","R","A","C","E">>), LitI(<<"D","E","B","U","G">>), LitI(<<"I","N","F","O">>), LitI(<<"W","A","R","N">>), LitI(<<"W","A","R","N","I","N","G">>), LitI(<<"E","R","R","O","R">>), LitI(<<"F","A","T","A","L">>), LitI(<<"C","R","I","T","I","C","A","L">>)>>),
    GroupClose, WB>>

\* the switch over the matched level
MapLevel(matchedLevel) ==
  CASE matchedLevel = <<"W","A","R","N","I","N","G">> -> <<"W","A","R","N">>
    [] matchedLevel = <<"F","A","T","A","L">> -> <<"E","R","R","O","R">>
    [] matchedLevel = <<"C","R","I","T","I","C","A","L">> -> <<"E","R","R","O","R">>
    [] matchedLevel = <<"T","R","A","C","E">> -> <<"D","E","B","U","G">>
    [] OTHER -> matchedLevel
LevelOfMatch(line, levelMatch) ==
  IF levelMatch = NoMatch THEN <<"I","N","F","O">> ELSE MapLevel(toUpperCase(Group1(line, levelMatch)))
\* variants of ExtractLevel with a defect, for testing what the properties
\* detect: the switch left out, and the pattern without its i flag
UnmappedLevelOfMatch(line, levelMatch) ==
  IF levelMatch = NoMatch THEN <<"I","N","F","O">> ELSE toUpperCase(Group1(line, levelMatch))
ExtractLevelUnmapped(line) == UnmappedLevelOfMatch(line, match(line, LevelPattern))
LevelPatternCaseSensitive ==
  <<WB, GroupOpen,
    Alt(<<Lit(<<"T","R","A","C","E">>), Lit(<<"D","E","B","U","G">>), Lit(<<"I","N","F","O">>), Lit(<<"W","A","R","N">>), Lit(<<"W","A","R","N","I","N","G">>), Lit(<<"E","R","R","O","R">>), Lit(<<"F","A","T","A","L">>), Lit(<<"C","R","I","T","I","C","A","L">>)>>),
    GroupClose, WB>>
ExtractLevelCaseSensitive(line) == LevelOfMatch(line, match(line, LevelPatternCaseSensitive))

ExtractLevel(line) == LevelOfMatch(line, match(line, LevelPattern))

UrlStop == WhiteSpace \cup {",", ";", ")", "}", "]"}
UrlPatternHttpCase == Lit(<<"h","t","t","p">>) \o <<Opt(<<Ch({"s"})>>)>> \o Lit(<<":","/","/">>) \o <<Plus(<<NCh(UrlStop)>>)>>
PathChars == AlphaNum \cup {"/", "-", "_", ".", "~", "!", "*", "'", "(", ")", ";", ":", "@", "&", "=", "+", "$", ",", "?", "#", "[", "]"}
UrlPatternPath == <<Ch({"/"}), Star(<<Ch(PathChars)>>)>>
UrlPatternScheme == <<Plus(<<Ch(WordChar)>>)>> \o Lit(<<":","/","/">>) \o <<Plus(<<NCh(UrlStop)>>)>>

\* the first of the three matches that is one
FirstMatch(m1, m2, m3) == IF m1 # NoMatch THEN m1 ELSE IF m2 # NoMatch THEN m2 ELSE m3
UrlOfMatch(line, m) == IF m # NoMatch THEN Some(Group0(line, m)) ELSE Undefined
\* variant of ExtractUrl with a defect: the path pattern is tried first
ExtractUrlPathFirst(line) ==
  UrlOfMatch(line, FirstMatch(match(line, UrlPatternPath), match(line, UrlPatternHttpCase), match(line, UrlPatternScheme)))
ExtractUrl(line) ==
  UrlOfMatch(line, FirstMatch(match(line, UrlPatternHttpCase), match(line, UrlPatternPath), match(line, UrlPatternScheme)))

Code3 == <<GroupOpen, Ch({"1", "2", "3", "4", "5"}), D(2), GroupClose>>
ResponseCodeBare == <<WB>> \o Code3 \o <<WB>>
ResponseCodeStatus == LitI(<<"s","t","a","t","u","s">>) \o <<Plus(<<Ch({"=", ":"} \cup WhiteSpace)>>)>> \o Code3
ResponseCodeCode == LitI(<<"c","o","d","e">>) \o <<Plus(<<Ch({"=", ":"} \cup WhiteSpace)>>)>> \o Code3

ResponseCodeOfMatch(line, m) == IF m # NoMatch THEN Some(Group1(line, m)) ELSE Undefined
ExtractResponseCode(line) ==
  ResponseCodeOfMatch(line, FirstMatch(match(line, ResponseCodeBare), match(line, ResponseCodeStatus),
                                       match(line, ResponseCodeCode)))

W1 == <<Plus(<<Ch(WordChar)>>)>>
ComponentBracket == <<Ch({"["}), GroupOpen, Plus(<<NCh({"]"})>>), GroupClose, Ch({"]"})>>
ComponentSuffix ==
  <<GroupOpen, Alt(<<W1 \o Lit(<<"S","e","r","v","i","c","e">>), W1 \o Lit(<<"C","o","n","t","r","o","l","l","e","r">>), W1 \o Lit(<<"M","o","d","u","l","e">>), W1 \o Lit(<<"H","a","n","d","l","e","r">>), W1 \o Lit(<<"P","r","o","v","i","d","e","r">>)>>), GroupClose>>
ComponentLogger == LitI(<<"l","o","g","g","e","r">>) \o <<Plus(<<Ch({"=", ":"} \cup WhiteSpace)>>), GroupOpen>> \o W1 \o <<GroupClose>>
ComponentClass == LitI(<<"c","l","a","s","s">>) \o <<Plus(<<Ch({"=", ":"} \cup WhiteSpace)>>), GroupOpen>> \o W1 \o <<GroupClose>>
ComponentPrefix == <<BOL, GroupOpen>> \o W1 \o <<GroupClose, Ch({":"})>>
\* variant of componentPatterns with a defect: the suffix family is tried
\* before the bracket family
componentPatternsSuffixFirst == <<ComponentSuffix, ComponentBracket, ComponentLogger, ComponentClass, ComponentPrefix>>
componentPatterns == <<ComponentBracket, ComponentSuffix, ComponentLogger, ComponentClass, ComponentPrefix>>

RECURSIVE ComponentFrom(_, _)
ComponentAt(line, k, m) == IF m # NoMatch THEN Some(Group1(line, m)) ELSE ComponentFrom(line, k + 1)
ComponentFrom(line, k) ==
  IF k > Len(componentPatterns) THEN Undefined ELSE ComponentAt(line, k, match(line, componentPatterns[k]))
ExtractComponent(line) == ComponentFrom(line, 1)

HeadersPattern ==
  LitI(<<"h","e","a","d","e","r">>) \o <<Opt(<<Ch({"s", "S"})>>), Star(<<Ch(WhiteSpace)>>), Ch({":", "="}), Star(<<Ch(WhiteSpace)>>), Ch({"{"}),
                     GroupOpen, Plus(<<NCh({"}"})>>), GroupClose, Ch({"}"})>>

\* s.trim().replace(/['"]/g, '')
StripQuotes(s) == SelectSeq(trim(s), LAMBDA c : c \notin {"'", "\""})

\* headers[key] = value on an object kept as its list of <<key, value>>
\* entries in insertion order
SetEntry(h, key, value) ==
  IF \E k \in 1..Len(h) : h[k][1] = key
  THEN [k \in 1..Len(h) |-> IF h[k][1] = key THEN <<key, value>> ELSE h[k]]
  ELSE Append(h, <<key, value>>)

\* headerPairs.forEach: [key, value] are the first two pieces of the pair
\* split at its colons
StripEach(pieces) == [k \in 1..Len(pieces) |-> StripQuotes(pieces[k])]
PutPair(h, parts) ==
  IF Len(parts[1]) > 0 /\ Len(parts) >= 2 /\ Len(parts[2]) > 0 THEN SetEntry(h, parts[1], parts[2]) ELSE h
RECURSIVE HeaderPairs(_, _)
HeaderPairs(pairs, h) ==
  IF Len(pairs) = 0 THEN h ELSE HeaderPairs(Tail(pairs), PutPair(h, StripEach(split(pairs[1], ":"))))

HeadersOrUndefined(headers) == IF Len(headers) > 0 THEN Some(headers) ELSE Undefined
HeadersOfMatch(line, headerMatches) ==
  HeadersOrUndefined(IF headerMatches = NoMatch THEN <<>>
                     ELSE HeaderPairs(split(Group1(line, headerMatches), ","), <<>>))
ExtractHeaders(line) == HeadersOfMatch(line, match(line, HeadersPattern))

\* variant of LogId with a defect: the 0-based index taken as it is
LogIdZeroBased(idx) == <<"l","o","g","-">> \o ToDecimal(idx)
LogId(idx) == <<"l","o","g","-">> \o ToDecimal(idx + 1)

\* what the try block extracts from a line
ExtractFields(line) ==
  [timestamp |-> ExtractTimestamp(line),
   level |-> ExtractLevel(line),
   url |-> ExtractUrl(line),
   responseCode |-> ExtractResponseCode(line),
   component |-> ExtractComponent(line),
   headers |-> ExtractHeaders(line)]
\* ExtractFields tabulated over the lines of the inputs
FieldsTable == [line \in KnownLines |-> ExtractFields(line)] @@ <<>>
FieldsOf(line) == FieldsTable[line]

\* the entry built by the try block (idx is 0-based, as in forEach); now is
\* the clock reading of new Date()
EntryOf(line, idx, now, f) ==
  [id |-> LogId(idx),
   timestamp |-> IF f.timestamp = Undefined THEN NowISO(now) ELSE f.timestamp[1],
   level |-> f.level,
   message |-> trim(line),
   url |-> f.url,
   responseCode |-> f.responseCode,
   component |-> f.component,
   headers |-> f.headers]
NormalEntry(line, idx, now) == EntryOf(line, idx, now, FieldsOf(line))

\* the entry built by the catch block
FallbackEntry(line, idx, now) ==
  [id |-> LogId(idx),
   timestamp |-> NowISO(now),
   level |-> <<"I","N","F","O">>,
   message |-> IF Len(trim(line)) > 0 THEN trim(line)
               ELSE <<"[","U","n","p","a","r","s","e","a","b","l","e"," ","l","o","g"," ","e","n","t","r","y"," ","a","t"," ","l","i","n","e"," ">> \o ToDecimal(idx + 1) \o <<"]">>,
   url |-> Undefined,
   responseCode |-> Undefined,
   component |-> Undefined,
   headers |-> Undefined]

\* variant of ParseLine with a defect: the catch block pushes nothing
ParseLineDropping(line, idx, now, thrown) ==
  IF thrown THEN <<>> ELSE <<NormalEntry(line, idx, now)>>

\* one iteration of lines.forEach: the entries pushed for the line.  thrown
\* says whether the field extraction of the try block raised an exception.
ParseLine(line, idx, now, thrown) ==
  IF thrown THEN <<FallbackEntry(line, idx, now)>> ELSE <<NormalEntry(line, idx, now)>>

\* variant of NonBlankLines with a defect: the filter left out
NonBlankLinesUnfiltered(txt) == split(txt, "\n")
\* text.split('\n').filter(line => line.trim())
NonBlankLines(txt) == SelectSeq(split(txt, "\n"), LAMBDA l : Len(trim(l)) > 0)

RECURSIVE ParseLines(_, _, _, _)
ParseLines(ls, idx, readings, thrownAt) ==
  IF idx >= Len(ls) THEN <<>>
  ELSE ParseLine(ls[idx + 1], idx, readings[idx + 1], (idx + 1) \in thrownAt)
       \o ParseLines(ls, idx + 1, readings, thrownAt)

\* parseLogText(text) under the clock readings clock (one per line, in
\* order) and with the set faults of (1-based) lines whose extraction throws
parseLogText(txt, readings, thrownAt) == ParseLines(NonBlankLines(txt), 0, readings, thrownAt)


-----------------------------------------------------------------------------
(* The URL class of the platform (WHATWG URL): new URL(s), its username,    *)
(* password and searchParams, and toString().  Modelled for printable       *)
(* ASCII input: scheme, credentials, host (lower-cased domain or dotted     *)
(* decimal IPv4), port, path with dot segments, query and fragment.         *)

\* the printable ASCII characters, code 32 to 126 (code 96, the grave accent,
\* cannot be written in a string of this language and is never an input)
AsciiSeq ==
  <<" ","!","\"","#","$","%","&","'","(",")","*","+",",","-",".","/",
  "0","1","2","3","4","5","6","7","8","9",":",";","<","=",">","?",
  "@","A","B","C","D","E","F","G","H","I","J","K","L","M","N","O",
  "P","Q","R","S","T","U","V","W","X","Y","Z","[","\\","]","^","_",
  "(grave)","a","b","c","d","e","f","g","h","i","j","k","l","m","n","o",
  "p","q","r","s","t","u","v","w","x","y","z","{","|","}","~">>
AsciiCode(c) == 31 + (CHOOSE i \in 1..Len(AsciiSeq) : AsciiSeq[i] = c)
HexSeq == <<"0","1","2","3","4","5","6","7","8","9","A","B","C","D","E","F">>
HexVal(c) == (CHOOSE i \in 1..16 : HexSeq[i] = toUpperCaseChar(c)) - 1
PercentByte(c) == <<"%", HexSeq[(AsciiCode(c) \div 16) + 1], HexSeq[(AsciiCode(c) % 16) + 1]>>
\* percent-encode the characters of s that are in the set enc
PercentEncode(s, enc) == Flatten([k \in 1..Len(s) |-> IF s[k] \in enc THEN PercentByte(s[k]) ELSE <<s[k]>>])

\* percent-decode: %XY becomes the character with that code (printable
\* ASCII codes; other bytes are left as written)
RECURSIVE PercentDecode(_)
PercentDecode(s) ==
  IF Len(s) = 0 THEN <<>>
  ELSE IF Len(s) >= 3 /\ s[1] = "%" /\ s[2] \in HexDigit /\ s[3] \in HexDigit
          /\ HexVal(s[2]) * 16 + HexVal(s[3]) \in 32..126
       THEN <<AsciiSeq[HexVal(s[2]) * 16 + HexVal(s[3]) - 31]>> \o PercentDecode(Slice(s, 4, Len(s) + 1))
       ELSE <<Head(s)>> \o PercentDecode(Tail(s))

\* position of the first character of s, from i on, that is in S (Len(s)+1 if none)
RECURSIVE FindFirst(_, _, _)
FindFirst(s, S, i) == IF i > Len(s) \/ s[i] \in S THEN i ELSE FindFirst(s, S, i + 1)
\* position of the last character of s that is in S (0 if none)
RECURSIVE FindLast(_, _, _)
FindLast(s, S, i) == IF i < 1 \/ s[i] \in S THEN i ELSE FindLast(s, S, i - 1)

\* the number of characters of S that s starts with, counted from n
RECURSIVE LeadingRun(_, _, _)
LeadingRun(s, S, n) == IF n < Len(s) /\ s[n + 1] \in S THEN LeadingRun(s, S, n + 1) ELSE n

SpecialSchemes == {<<"h","t","t","p">>, <<"h","t","t","p","s">>, <<"f","t","p">>, <<"w","s">>, <<"w","s","s">>}
DefaultPort(scheme) ==
  CASE scheme = <<"h","t","t","p">> -> <<"8","0">> [] scheme = <<"h","t","t","p","s">> -> <<"4","4","3">> [] scheme = <<"f","t","p">> -> <<"2","1">>
    [] scheme = <<"w","s">> -> <<"8","0">> [] scheme = <<"w","s","s">> -> <<"4","4","3">> [] OTHER -> <<>>

UserinfoEncodeSet == {" ", "\"", "#", "<", ">", "?", "{", "}", "/", ":", ";", "=", "@", "[", "\\", "]", "^", "|"}
PathEncodeSet == {" ", "\"", "#", "<", ">", "?", "{", "}"}
QueryEncodeSet == {" ", "\"", "#", "<", ">"}
SpecialQueryEncodeSet == QueryEncodeSet \cup {"'"}
FragmentEncodeSet == {" ", "\"", "<", ">"}
ForbiddenHostChars == {" ", "\t", "\n", "\r", "#", "/", ":", "<", ">", "?", "@", "[", "\\", "]", "^", "|"}
ForbiddenDomainChars == ForbiddenHostChars \cup {"%"}

ParseFailure == [ok |-> FALSE]

AllDigits(s) == Len(s) > 0 /\ \A k \in 1..Len(s) : s[k] \in Digit
RECURSIVE DecimalValue(_, _)
DecimalValue(ds, acc) == IF Len(ds) = 0 THEN acc ELSE DecimalValue(Tail(ds), acc * 10 + DigitVal(Head(ds)))

\* the host parser for a special scheme: <<ok, host>>.  A host that ends in
\* a number goes to the IPv4 parser (dotted decimal)
HostOfLabels(dom, parts) ==
  IF AllDigits(parts[Len(parts)])
  THEN IF Len(parts) = 4 /\ \A k \in 1..4 : AllDigits(parts[k]) /\ Len(parts[k]) <= 3 /\ DecimalValue(parts[k], 0) <= 255
                                            /\ (Len(parts[k]) = 1 \/ parts[k][1] # "0")
       THEN <<TRUE, join(parts, ".")>>
       ELSE <<FALSE, <<>>>>
  ELSE <<TRUE, dom>>
DropLastEmpty(labels) ==
  IF Len(labels) > 1 /\ Len(labels[Len(labels)]) = 0 THEN SubSeq(labels, 1, Len(labels) - 1) ELSE labels
DomainHost(dom) ==
  IF Len(dom) = 0 \/ \E k \in 1..Len(dom) : dom[k] \in ForbiddenDomainChars THEN <<FALSE, <<>>>>
  ELSE HostOfLabels(dom, DropLastEmpty(split(dom, ".")))
ParseDomainHost(raw) == DomainHost(toLowerCase(PercentDecode(raw)))

\* the host parser for a scheme that is not special: an opaque host
ParseOpaqueHost(raw) ==
  IF \E k \in 1..Len(raw) : raw[k] \in ForbiddenHostChars THEN <<FALSE, <<>>>> ELSE <<TRUE, raw>>

IsDoubleDot(seg) == toLowerCase(seg) \in {<<".",".">>, <<".","%","2","e">>, <<"%","2","e",".">>, <<"%","2","e","%","2","e">>}
IsSingleDot(seg) == toLowerCase(seg) \in {<<".">>, <<"%","2","e">>}

\* the path state: the segments of the path, dot segments resolved
RECURSIVE PathSegments(_, _, _)
PathSegments(segs, k, acc) ==
  IF k > Len(segs) THEN acc
  ELSE IF IsDoubleDot(segs[k])
  THEN PathSegments(segs, k + 1, (IF Len(acc) > 0 THEN SubSeq(acc, 1, Len(acc) - 1) ELSE acc)
                                 \o (IF k = Len(segs) THEN <<<<>>>> ELSE <<>>))
  ELSE IF IsSingleDot(segs[k])
  THEN PathSegments(segs, k + 1, acc \o (IF k = Len(segs) THEN <<<<>>>> ELSE <<>>))
  ELSE PathSegments(segs, k + 1, Append(acc, PercentEncode(segs[k], PathEncodeSet)))

\* the path of a URL with an authority, from the text after the authority
\* (which is empty or starts with a slash)
JoinSegments(segs) == IF Len(segs) = 0 THEN <<"/">> ELSE Flatten([k \in 1..Len(segs) |-> <<"/">> \o segs[k]])
BackslashToSlash(p) == [k \in 1..Len(p) |-> IF p[k] = "\\" THEN "/" ELSE p[k]]
ParsePath(p, special) ==
  IF Len(p) = 0 THEN (IF special THEN <<"/">> ELSE <<>>)
  ELSE JoinSegments(PathSegments(split(Tail(IF special THEN BackslashToSlash(p) ELSE p), "/"), 1, <<>>))

\* new URL(s) without a base, state by state; [ok |-> FALSE] when the
\* constructor throws.
\* the port and the host
PortOk(rawPort) == Len(rawPort) = 0 \/ (AllDigits(rawPort) /\ Len(rawPort) <= 5 /\ DecimalValue(rawPort, 0) <= 65535)
PortText(rawPort) == IF Len(rawPort) = 0 THEN <<>> ELSE ToDecimal(DecimalValue(rawPort, 0))
PortOf(scheme, portText) == IF portText = DefaultPort(scheme) THEN <<>> ELSE portText
HostState(scheme, special, cred, hasAt, rawHost, rawPort, hostRes, path, query, fragment) ==
  IF ~PortOk(rawPort) \/ ~hostRes[1] \/ (Len(rawHost) = 0 /\ (special \/ hasAt \/ Len(rawPort) > 0))
  THEN ParseFailure
  ELSE [ok |-> TRUE, scheme |-> scheme, special |-> special, hasHost |-> TRUE,
        username |-> cred[1], password |-> cred[2],
        host |-> hostRes[2], port |-> PortOf(scheme, PortText(rawPort)),
        path |-> path, query |-> query, fragment |-> fragment]
HostPortState(scheme, special, cred, hasAt, rawHost, rawPort, path, query, fragment) ==
  HostState(scheme, special, cred, hasAt, rawHost, rawPort,
            IF special THEN ParseDomainHost(rawHost) ELSE ParseOpaqueHost(rawHost), path, query, fragment)
\* the credentials, before the last @ of the authority
CredentialsAt(cred, credColon) ==
  <<PercentEncode(Slice(cred, 1, credColon), UserinfoEncodeSet),
    PercentEncode(Slice(cred, credColon + 1, Len(cred) + 1), UserinfoEncodeSet)>>
Credentials(cred) == CredentialsAt(cred, FindFirst(cred, {":"}, 1))
HostPortAt(scheme, special, cred, hasAt, hostport, portColon, path, query, fragment) ==
  HostPortState(scheme, special, cred, hasAt, Slice(hostport, 1, portColon),
                Slice(hostport, portColon + 1, Len(hostport) + 1), path, query, fragment)
AuthorityAt(scheme, special, authority, at, path, query, fragment) ==
  HostPortAt(scheme, special, Credentials(Slice(authority, 1, at)), at > 0,
             Slice(authority, at + 1, Len(authority) + 1),
             FindFirst(Slice(authority, at + 1, Len(authority) + 1), {":"}, 1), path, query, fragment)
AuthorityState(scheme, special, rest, authEnd, query, fragment) ==
  AuthorityAt(scheme, special, Slice(rest, 1, authEnd), FindLast(Slice(rest, 1, authEnd), {"@"}, authEnd - 1),
              ParsePath(Slice(rest, authEnd, Len(rest) + 1), special), query, fragment)
\* the slashes after the scheme: for a special scheme any run of slashes
\* leads to the authority; otherwise "//" does
Slashes(special) == IF special THEN {"/", "\\"} ELSE {"/"}
SlashRun(hier, special) ==
  IF special THEN LeadingRun(hier, Slashes(special), 0)
  ELSE IF Len(hier) >= 2 /\ hier[1] = "/" /\ hier[2] = "/" THEN 2 ELSE 0
HierAt(scheme, special, hier, skip, query, fragment) ==
  IF special \/ skip = 2
  THEN AuthorityState(scheme, special, Slice(hier, skip + 1, Len(hier) + 1),
                      FindFirst(Slice(hier, skip + 1, Len(hier) + 1), Slashes(special), 1), query, fragment)
  ELSE [ok |-> TRUE, scheme |-> scheme, special |-> FALSE, hasHost |-> FALSE, username |-> <<>>, password |-> <<>>,
        host |-> <<>>, port |-> <<>>,
        path |-> IF Len(hier) > 0 /\ hier[1] = "/" THEN ParsePath(hier, FALSE) ELSE hier,
        query |-> query, fragment |-> fragment]
HierState(scheme, special, hier, query, fragment) ==
  HierAt(scheme, special, hier, SlashRun(hier, special), query, fragment)
\* the query, after the first ?
QueryAt(scheme, special, noFrag, qAt, fragment) ==
  HierState(scheme, special, Slice(noFrag, 1, qAt),
            IF qAt <= Len(noFrag)
            THEN Some(PercentEncode(Slice(noFrag, qAt + 1, Len(noFrag) + 1),
                                    IF special THEN SpecialQueryEncodeSet ELSE QueryEncodeSet))
            ELSE Undefined,
            fragment)
\* the fragment, after the first #
FragmentAt(scheme, afterScheme, hashAt) ==
  QueryAt(scheme, scheme \in SpecialSchemes, Slice(afterScheme, 1, hashAt),
          FindFirst(Slice(afterScheme, 1, hashAt), {"?"}, 1),
          IF hashAt <= Len(afterScheme)
          THEN Some(PercentEncode(Slice(afterScheme, hashAt + 1, Len(afterScheme) + 1), FragmentEncodeSet))
          ELSE Undefined)
\* the scheme, before the first colon
SchemeAt(s, colon) ==
  IF colon <= Len(s) /\ colon > 1 /\ s[1] \in Alpha /\ \A k \in 2..(colon - 1) : s[k] \in AlphaNum \cup {"+", "-", "."}
  THEN FragmentAt(toLowerCase(Slice(s, 1, colon)), Slice(s, colon + 1, Len(s) + 1),
                  FindFirst(Slice(s, colon + 1, Len(s) + 1), {"#"}, 1))
  ELSE ParseFailure
URLParse(s) == SchemeAt(s, FindFirst(s, {":"}, 1))

\* URL.prototype.toString
URLSerialize(u) ==
  u.scheme \o <<":">>
  \o (IF u.hasHost
      THEN <<"/","/">>
           \o (IF Len(u.username) > 0 \/ Len(u.password) > 0
               THEN u.username \o (IF Len(u.password) > 0 THEN <<":">> \o u.password ELSE <<>>) \o <<"@">>
               ELSE <<>>)
           \o u.host
           \o (IF Len(u.port) > 0 THEN <<":">> \o u.port ELSE <<>>)
      ELSE <<>>)
  \o u.path
  \o (IF u.query # Undefined THEN <<"?">> \o u.query[1] ELSE <<>>)
  \o (IF u.fragment # Undefined THEN <<"#">> \o u.fragment[1] ELSE <<>>)

\* the username and password setters (no effect on a URL that cannot have
\* credentials: no host, or an empty host)
SetCredentials(u, name, pass) ==
  IF ~u.hasHost \/ Len(u.host) = 0 THEN u
  ELSE [u EXCEPT !.username = PercentEncode(name, UserinfoEncodeSet), !.password = PercentEncode(pass, UserinfoEncodeSet)]

\* application/x-www-form-urlencoded: the parser ...
PlusToSpace(s) == [k \in 1..Len(s) |-> IF s[k] = "+" THEN " " ELSE s[k]]
ParsePairAt(p, eq) ==
  <<PercentDecode(PlusToSpace(Slice(p, 1, eq))), PercentDecode(PlusToSpace(Slice(p, eq + 1, Len(p) + 1)))>>
ParsePair(p) == ParsePairAt(p, FindFirst(p, {"="}, 1))
ParsePairs(pieces) == [k \in 1..Len(pieces) |-> ParsePair(pieces[k])]
ParseQuery(q) == ParsePairs(SelectSeq(split(q, "&"), LAMBDA p : Len(p) > 0))
\* ... and the serializer
FormSafe == AlphaNum \cup {"*", "-", ".", "_"}
FormEncode(s) == Flatten([k \in 1..Len(s) |-> IF s[k] \in FormSafe THEN <<s[k]>> ELSE IF s[k] = " " THEN <<"+">> ELSE PercentByte(s[k])])
SerializeQuery(list) == join([k \in 1..Len(list) |-> FormEncode(list[k][1]) \o <<"=">> \o FormEncode(list[k][2])], "&")

\* the query object of url.searchParams
SearchParams(u) == IF u.query = Undefined THEN <<>> ELSE ParseQuery(u.query[1])

\* URLSearchParams.prototype.set on the list: the first entry named name
\* takes the value, the other entries of that name are removed
FirstNamed(list, name) == CHOOSE k \in 1..Len(list) : list[k][1] = name /\ \A j \in 1..(k - 1) : list[j][1] # name
Indexed(list) == [k \in 1..Len(list) |-> <<k, list[k]>>]
KeepFirstNamed(indexed, name, first) == SelectSeq(indexed, LAMBDA e : e[2][1] # name \/ e[1] = first)
ReplaceAt(kept, name, value, first) == [k \in 1..Len(kept) |-> IF kept[k][1] = first THEN <<name, value>> ELSE kept[k][2]]
ParamsSetAt(list, name, value, first) == ReplaceAt(KeepFirstNamed(Indexed(list), name, first), name, value, first)
ParamsSet(list, name, value) ==
  IF \E k \in 1..Len(list) : list[k][1] = name
  THEN ParamsSetAt(list, name, value, FirstNamed(list, name))
  ELSE Append(list, <<name, value>>)

-----------------------------------------------------------------------------
(* App: the masking engine *)

\* variant of MASKED with a defect: the token in small letters
MaskedInSmallLetters == <<"*","*","*","m","a","s","k","e","d","*","*","*">>
MASKED == <<"*","*","*","M","A","S","K","E","D","*","*","*">>

\* variant of HeaderKeyIsSensitive with a defect: the key is not lower-cased
HeaderKeyIsSensitiveAsWritten(key) ==
  includes(key, <<"a","u","t","h","o","r","i","z","a","t","i","o","n">>) \/ includes(key, <<"t","o","k","e","n">>) \/ includes(key, <<"k","e","y">>)
HeaderKeyIsSensitive(key) ==
  includes(toLowerCase(key), <<"a","u","t","h","o","r","i","z","a","t","i","o","n">>) \/ includes(toLowerCase(key), <<"t","o","k","e","n">>) \/ includes(toLowerCase(key), <<"k","e","y">>)

\* variant of maskHeadersCall with a defect: the argument itself is written to
\* and returned
maskHeadersCallInPlace(headers) ==
  LET masked == [k \in 1..Len(headers) |-> IF HeaderKeyIsSensitive(headers[k][1]) THEN <<headers[k][1], MASKED>> ELSE headers[k]]
  IN [arg |-> masked, ret |-> masked, aliased |-> TRUE]
\* maskHeaders(headers) as a call: ret is the mapping returned, arg is the
\* mapping that was passed, as the call leaves it, aliased says whether the
\* two are one object.  The code writes to the
\* copy { ...headers }, so the argument keeps its entries.
maskHeadersCall(headers) ==
  [arg |-> headers,
   ret |-> [k \in 1..Len(headers) |-> IF HeaderKeyIsSensitive(headers[k][1]) THEN <<headers[k][1], MASKED>> ELSE headers[k]],
   aliased |-> FALSE]
maskHeaders(headers) == maskHeadersCall(headers).ret

sensitiveParams == <<<<"t","o","k","e","n">>, <<"k","e","y">>, <<"p","a","s","s","w","o","r","d">>, <<"s","e","c","r","e","t">>, <<"a","u","t","h">>>>
\* variant of ParamIsSensitive with a defect: the key is not lower-cased
ParamIsSensitiveAsWritten(key) == \E k \in 1..Len(sensitiveParams) : includes(key, sensitiveParams[k])
ParamIsSensitive(key) == \E k \in 1..Len(sensitiveParams) : includes(toLowerCase(key), sensitiveParams[k])

\* urlObj.searchParams.forEach(...): the entries are visited by index in the
\* live list; changed says whether set was called (which rewrites the query)
RECURSIVE MaskParams(_, _, _)
MaskParams(list, i, changed) ==
  IF i > Len(list) THEN [list |-> list, changed |-> changed]
  ELSE IF ParamIsSensitive(list[i][1]) THEN MaskParams(ParamsSet(list, list[i][1], MASKED), i + 1, TRUE)
  ELSE MaskParams(list, i + 1, changed)

\* /([?&](token|key|password|secret|auth)[^=]*=)[^&]*/gi
UrlFallbackPattern ==
  <<GroupOpen, Ch({"?", "&"}), Alt(<<LitI(<<"t","o","k","e","n">>), LitI(<<"k","e","y">>), LitI(<<"p","a","s","s","w","o","r","d">>), LitI(<<"s","e","c","r","e","t">>), LitI(<<"a","u","t","h">>)>>),
    Star(<<NCh({"="})>>), Ch({"="}), GroupClose, Star(<<NCh({"&"})>>)>>

FallbackReplacements(url, ms) == [k \in 1..Len(ms) |-> Group1(url, <<ms[k][1], ms[k][2], ms[k][3], ms[k][4]>>) \o MASKED]
SubstFallback(url, ms) == Subst(url, ms, FallbackReplacements(url, ms), 1)
\* the catch block of maskUrl
maskUrlFallback(url) == SubstFallback(url, MatchAll(UrlFallbackPattern, url, 1))

\* the try block of maskUrl after new URL(url): the credentials, the query
\* parameters, toString()
WithParams(u, mp) ==
  URLSerialize(IF mp.changed
               THEN [u EXCEPT !.query = IF Len(mp.list) = 0 THEN Undefined ELSE Some(SerializeQuery(mp.list))]
               ELSE u)
MaskUrlParams(u) == WithParams(u, MaskParams(SearchParams(u), 1, FALSE))
MaskUrlObj(url, urlObj) ==
  IF ~urlObj.ok THEN maskUrlFallback(url)
  ELSE MaskUrlParams(IF Len(urlObj.username) > 0 \/ Len(urlObj.password) > 0
                     THEN SetCredentials(urlObj, <<"*","*","*">>, <<"*","*","*">>) ELSE urlObj)
maskUrl(url) == IF Len(url) = 0 THEN url ELSE MaskUrlObj(url, URLParse(url))

\* [^\s&,;)}\]'"]
ValueStop == WhiteSpace \cup {"&", ",", ";", ")", "}", "]", "'", "\""}
\* [^\s,;)}\]'"]
UrlStopQ == WhiteSpace \cup {",", ";", ")", "}", "]", "'", "\""}
\* [^\s;,)}\]]
ConnStop == WhiteSpace \cup {";", ",", ")", "}", "]"}
CredValue == <<Ch({"=", ":"}), Star(<<Ch(WhiteSpace)>>), Plus(<<NCh(ValueStop)>>)>>
SchemeValue == <<Plus(<<Ch(WhiteSpace)>>), Plus(<<NCh(ValueStop)>>)>>
ConnValue == <<Ch({"=", ":"}), Plus(<<NCh(ConnStop)>>)>>
Hex4 == Rep(<<Ch(HexDigit)>>, 1, 4)
Hex4Colon == <<Hex4, Ch({":"})>>
Sep == Opt(<<Ch({"-", "."} \cup WhiteSpace)>>)
WinName == {"\\", "/", ":", "*", "?", "\"", "<", ">", "|", "\r", "\n"}
HexN(n) == Rep(<<Ch(HexDigit)>>, n, n)
Base64Char == AlphaNum \cup {"+", "/"}

\* variant of RePassword with a defect: only the colon accepted as separator
RePasswordColonOnly == LitI(<<"p","a","s","s","w","o","r","d">>) \o <<Ch({":"})>> \o Tail(CredValue)
RePassword == LitI(<<"p","a","s","s","w","o","r","d">>) \o CredValue
ReToken == LitI(<<"t","o","k","e","n">>) \o CredValue
ReApiKey == LitI(<<"a","p","i">>) \o <<Opt(<<Ch({"_", "-"})>>)>> \o LitI(<<"k","e","y">>) \o CredValue
ReBearer == LitI(<<"B","e","a","r","e","r">>) \o SchemeValue
ReBasic == LitI(<<"B","a","s","i","c">>) \o SchemeValue
ReJwt == LitI(<<"j","w","t">>) \o CredValue
ReSession == LitI(<<"s","e","s","s","i","o","n">>) \o CredValue
ReAbsoluteUrl == LitI(<<"h","t","t","p">>) \o <<Opt(<<Ch({"s", "S"})>>)>> \o Lit(<<":","/","/">>) \o <<Plus(<<NCh(UrlStopQ)>>)>>
ReRelativeUrl == <<Ch({"/"}), Star(<<NCh(WhiteSpace \cup {"?"})>>), Ch({"?"}), Plus(<<NCh(UrlStopQ)>>)>>
ReIPv4 == <<WB, Rep(<<Ch(Digit)>>, 1, 3), Ch({"."}), Rep(<<Ch(Digit)>>, 1, 3), Ch({"."}), Rep(<<Ch(Digit)>>, 1, 3), Ch({"."}), Rep(<<Ch(Digit)>>, 1, 3), WB>>
ReIPv6Full == <<WB, Rep(Hex4Colon, 7, 7), Hex4, WB>>
ReIPv6Mid == <<WB, Rep(Hex4Colon, 1, 6), Ch({":"}), Hex4, WB>>
ReIPv6Lead == <<WB, Ch({":"}), Ch({":"}), Star(Hex4Colon), Hex4, WB>>
ReIPv6Tail == <<WB, Hex4, Ch({":"}), Ch({":"}), Star(Hex4Colon), Hex4, WB>>
ReEmail ==
  <<WB, Plus(<<Ch(AlphaNum \cup {".", "_", "%", "+", "-"})>>), Ch({"@"}), Plus(<<Ch(AlphaNum \cup {".", "-"})>>), Ch({"."}),
    Rep(<<Ch(Alpha \cup {"|"})>>, 2, Inf), WB>>
RePhone ==
  <<WB, Opt(<<Opt(<<Ch({"+"})>>), Ch({"1"}), Sep>>), Opt(<<Ch({"("})>>), D(3), Opt(<<Ch({")"})>>), Sep, D(3), Sep, D(4), WB>>
ReCard ==
  <<WB, Alt(<< <<Ch({"4"}), D(12), Opt(<<D(3)>>)>>,
               <<Ch({"5"}), Ch({"1", "2", "3", "4", "5"}), D(14)>>,
               <<Ch({"3"}), Ch({"4", "7"}), D(13)>>,
               <<Ch({"3"}), D(13)>>,
               <<Ch({"6"}), Alt(<<Lit(<<"0","1","1">>), <<Ch({"5"}), D(2)>> >>), D(12)>> >>), WB>>
ReSsn == <<WB, D(3), Ch({"-"}), D(2), Ch({"-"}), D(4), WB>>
ReServer == LitI(<<"s","e","r","v","e","r">>) \o ConnValue
ReDatabase == LitI(<<"d","a","t","a","b","a","s","e">>) \o ConnValue
ReUser == LitI(<<"u","s","e","r">>) \o ConnValue
ReUid == LitI(<<"u","i","d">>) \o ConnValue
RePwd == LitI(<<"p","w","d">>) \o ConnValue
ReWindowsPath == <<Ch(Alpha), Ch({":"}), Ch({"\\"}), Star(<<Plus(<<NCh(WinName)>>), Ch({"\\"})>>), Star(<<NCh(WinName)>>)>>
ReHomePath == <<Ch({"/"}), Alt(<<Lit(<<"h","o","m","e">>), Lit(<<"U","s","e","r","s">>)>>), Ch({"/"}), Plus(<<NCh(ConnStop)>>)>>
ReUuid ==
  <<WB, HexN(8), Ch({"-"}), HexN(4), Ch({"-"}), Ch({"1", "2", "3", "4", "5"}), HexN(3), Ch({"-"}),
    Ch({"8", "9", "a", "b", "A", "B"}), HexN(3), Ch({"-"}), HexN(12), WB>>
ReHash == <<WB, Rep(<<Ch(Base64Char)>>, 32, Inf), Rep(<<Ch({"="})>>, 0, 2), WB>>

\* s.replace(re, match => maskUrl(match))
replaceUrls(s, re) ==
  LET ms == MatchAll(re, s, 1)
  IN Subst(s, ms, [k \in 1..Len(ms) |-> maskUrl(Slice(s, ms[k][1], ms[k][2]))], 1)

\* the callback of the last rule
HashReplacement(m) ==
  IF Len(m) >= 32 /\ (\E k \in 1..Len(m) : m[k] \in Upper) /\ (\E k \in 1..Len(m) : m[k] \in Lower)
     /\ (\E k \in 1..Len(m) : m[k] \in Digit)
  THEN <<"*","*","*","H","A","S","H","_","M","A","S","K","E","D","*","*","*">> ELSE m
replaceHashes(s, re) ==
  LET ms == MatchAll(re, s, 1)
  IN Subst(s, ms, [k \in 1..Len(ms) |-> HashReplacement(Slice(s, ms[k][1], ms[k][2]))], 1)

\* the chain of maskSensitiveData, one entry per .replace call in call order:
\* k = "text" replaces by a fixed text, "url" by maskUrl(match), "hash" by the
\* callback of the last rule
TextRule(re, rep) == [k |-> "text", re |-> re, rep |-> rep]
UrlRule(re) == [k |-> "url", re |-> re, rep |-> <<>>]
HashRule(re) == [k |-> "hash", re |-> re, rep |-> <<>>]
maskRules ==
  << TextRule(RePassword, <<"p","a","s","s","w","o","r","d","=","*","*","*","M","A","S","K","E","D","*","*","*">>),
     TextRule(ReToken, <<"t","o","k","e","n","=","*","*","*","M","A","S","K","E","D","*","*","*">>),
     TextRule(ReApiKey, <<"a","p","i","_","k","e","y","=","*","*","*","M","A","S","K","E","D","*","*","*">>),
     TextRule(ReBearer, <<"B","e","a","r","e","r"," ","*","*","*","M","A","S","K","E","D","*","*","*">>),
     TextRule(ReBasic, <<"B","a","s","i","c"," ","*","*","*","M","A","S","K","E","D","*","*","*">>),
     TextRule(ReJwt, <<"j","w","t","=","*","*","*","M","A","S","K","E","D","*","*","*">>),
     TextRule(ReSession, <<"s","e","s","s","i","o","n","=","*","*","*","M","A","S","K","E","D","*","*","*">>),
     UrlRule(ReAbsoluteUrl),
     UrlRule(ReRelativeUrl),
     TextRule(ReIPv4, <<"*","*","*","I","P","_","M","A","S","K","E","D","*","*","*">>),
     TextRule(ReIPv6Full, <<"*","*","*","I","P","v","6","_","M","A","S","K","E","D","*","*","*">>),
     TextRule(ReIPv6Mid, <<"*","*","*","I","P","v","6","_","M","A","S","K","E","D","*","*","*">>),
     TextRule(ReIPv6Lead, <<"*","*","*","I","P","v","6","_","M","A","S","K","E","D","*","*","*">>),
     TextRule(ReIPv6Tail, <<"*","*","*","I","P","v","6","_","M","A","S","K","E","D","*","*","*">>),
     TextRule(ReEmail, <<"*","*","*","E","M","A","I","L","_","M","A","S","K","E","D","*","*","*">>),
     TextRule(RePhone, <<"*","*","*","P","H","O","N","E","_","M","A","S","K","E","D","*","*","*">>),
     TextRule(ReCard, <<"*","*","*","C","A","R","D","_","M","A","S","K","E","D","*","*","*">>),
     TextRule(ReSsn, <<"*","*","*","S","S","N","_","M","A","S","K","E","D","*","*","*">>),
     TextRule(ReServer, <<"s","e","r","v","e","r","=","*","*","*","M","A","S","K","E","D","*","*","*">>),
     TextRule(ReDatabase, <<"d","a","t","a","b","a","s","e","=","*","*","*","M","A","S","K","E","D","*","*","*">>),
     TextRule(ReUser, <<"u","s","e","r","=","*","*","*","M","A","S","K","E","D","*","*","*">>),
     TextRule(ReUid, <<"u","i","d","=","*","*","*","M","A","S","K","E","D","*","*","*">>),
     TextRule(RePwd, <<"p","w","d","=","*","*","*","M","A","S","K","E","D","*","*","*">>),
     TextRule(ReWindowsPath, <<"*","*","*","P","A","T","H","_","M","A","S","K","E","D","*","*","*">>),
     TextRule(ReHomePath, <<"*","*","*","P","A","T","H","_","M","A","S","K","E","D","*","*","*">>),
     TextRule(ReUuid, <<"*","*","*","U","U","I","D","_","M","A","S","K","E","D","*","*","*">>),
     HashRule(ReHash) >>
ApplyRule(s, rule) ==
  CASE rule.k = "text" -> replaceAll(s, rule.re, rule.rep)
    [] rule.k = "url" -> replaceUrls(s, rule.re)
    [] rule.k = "hash" -> replaceHashes(s, rule.re)
\* rules k..Len(rules) applied to s; each call returns its string before the
\* next call starts
RECURSIVE ApplyRules(_, _, _)
ApplyRules(s, rules, k) ==
  IF k > Len(rules) THEN s
  ELSE CHOOSE r \in {ApplyRules(a, rules, k + 1) : a \in {ApplyRule(s, rules[k])}} : TRUE

maskSensitiveData(msg) == ApplyRules(msg, maskRules, 1)

-----------------------------------------------------------------------------
(* State.  The state hooks of App, the locals of one parseLogText call, and  *)
(* the argument and results of maskSensitiveData applied twice.              *)

VARIABLES
  logs, maskedLogs, analysisResult, isAnalyzing, isMasking, useOpenAI, openAIApiKey, aiRawResult,
  maskJob,        \* the logs a handleMaskLogs run captured while its delay is pending
  analyzeJob,     \* the maskedLogs a handleAnalyzeLogs run captured while its call is pending
  serviceCall,    \* the arguments of the analyzeLogsWithOpenAI call made by the latest step
  analyzeAlert,   \* the text the catch block of handleAnalyzeLogs alerts in the latest step
  maskRun,        \* the logs.map call of the handleMaskLogs run that ends in this step
  text, lines, index, parsed, clock, faults, returned,
  message, once, twice,
  urlArg, urlRet,           \* the argument of a maskUrl call and what it returns
  headersArg, headersRet,   \* the argument of a maskHeaders call, and the call
  previewLogs, filters,     \* the props logs and filters of LogPreview
  filteredLogs,             \* the value of its memo filteredLogs after the last render
  currentPage               \* the state currentPage of LogPreview

appVars ==
  <<logs, maskedLogs, analysisResult, isAnalyzing, isMasking, useOpenAI, openAIApiKey, aiRawResult,
    maskJob, analyzeJob, serviceCall, analyzeAlert, maskRun>>
parseVars == <<text, lines, index, parsed, clock, faults, returned>>
maskVars == <<message, once, twice>>
urlVars == <<urlArg, urlRet>>
headersVars == <<headersArg, headersRet>>
previewVars == <<previewLogs, filters, filteredLogs, currentPage>>
callVars == <<urlVars, headersVars, previewVars>>
vars == <<appVars, parseVars, maskVars, callVars>>

Null == <<>>

\* useState initial values
AppInit ==
  /\ logs = <<>>
  /\ maskedLogs = <<>>
  /\ analysisResult = Null
  /\ isAnalyzing = FALSE
  /\ isMasking = FALSE
  /\ useOpenAI = FALSE
  /\ openAIApiKey = <<"O","p","e","n","A","I","-","K","e","y">>
  /\ aiRawResult = Null
  /\ maskJob = Null
  /\ analyzeJob = Null
  /\ serviceCall = Null
  /\ analyzeAlert = Null
  /\ maskRun = Null
\* no parseLogText call under way
ParseIdle ==
  /\ text = <<>>
  /\ lines = <<>>
  /\ index = 0
  /\ parsed = <<>>
  /\ clock = <<>>
  /\ faults = {}
  /\ returned = FALSE
\* no maskSensitiveData call under way
MaskIdle ==
  /\ message = <<>>
  /\ once = Null
  /\ twice = Null
\* no maskUrl call under way
UrlIdle ==
  /\ urlArg = <<>>
  /\ urlRet = Null
\* no maskHeaders call under way
HeadersIdle ==
  /\ headersArg = <<>>
  /\ headersRet = Null
\* the initial value of the filters state of App, which clearAllFilters
\* restores
NoFilters ==
  [timestampRange |-> [start |-> <<>>, end |-> <<>>], logLevel |-> <<>>, keyword |-> <<>>, component |-> <<>>,
   responseCode |-> <<>>]
\* LogPreview not rendered
PreviewIdle ==
  /\ previewLogs = <<>>
  /\ filters = NoFilters
  /\ filteredLogs = <<>>
  /\ currentPage = 1
CallsIdle == UrlIdle /\ HeadersIdle /\ PreviewIdle

-----------------------------------------------------------------------------
(* App and LogUploadSection: the handlers *)

\* variant of handleLogsUpload with a defect: setAnalysisResult(null) left out
handleLogsUploadKeepingResult(uploadedLogs) ==
  /\ logs' = uploadedLogs
  /\ maskedLogs' = <<>>
  /\ analysisResult' = analysisResult
  /\ maskJob' = IF maskJob = Null THEN Null ELSE Some([maskJob[1] EXCEPT !.current = FALSE])
\* handleLogsUpload
handleLogsUpload(uploadedLogs) ==
  /\ logs' = uploadedLogs
  /\ maskedLogs' = <<>>
  /\ analysisResult' = Null
  \* a handleMaskLogs run that is waiting keeps the array it captured, which
  \* is no longer the logs state
  /\ maskJob' = IF maskJob = Null THEN Null ELSE Some([maskJob[1] EXCEPT !.current = FALSE])

\* parseLogText(t) when every line is parsed within the clock reading now
Upload(t, now) == parseLogText(t, [k \in 1..Len(NonBlankLines(t)) |-> now], {})
\* Upload tabulated over the texts a user submits and the clock readings
UploadTable == [u \in UploadTexts \X (0..MaxClock) |-> Upload(u[1], u[2])] @@ <<>>
UploadOf(t, now) == UploadTable[<<t, now>>]
\* handleTextSubmit: the text pasted has a non-blank line (and the user
\* confirms when it has fewer than three); all lines are parsed within the
\* clock reading now
handleTextSubmit ==
  /\ \E textInput \in UploadTexts, now \in 0..MaxClock :
       /\ Len(trim(textInput)) > 0
       /\ Len(NonBlankLines(textInput)) > 0
       /\ \E parsedLogs \in {UploadOf(textInput, now)} :
            /\ Len(parsedLogs) > 0
            /\ handleLogsUpload(parsedLogs)
  /\ serviceCall' = Null
  /\ analyzeAlert' = Null
  /\ maskRun' = Null
  /\ UNCHANGED <<isAnalyzing, isMasking, useOpenAI, openAIApiKey, aiRawResult, analyzeJob, parseVars, maskVars, callVars>>
\* handleFile, from the point where file.text() has resolved
handleFile ==
  /\ \E fileText \in UploadTexts, now \in 0..MaxClock :
       /\ Len(trim(fileText)) > 0
       /\ \E parsedLogs \in {UploadOf(fileText, now)} :
            /\ Len(parsedLogs) > 0
            /\ handleLogsUpload(parsedLogs)
  /\ serviceCall' = Null
  /\ analyzeAlert' = Null
  /\ maskRun' = Null
  /\ UNCHANGED <<isAnalyzing, isMasking, useOpenAI, openAIApiKey, aiRawResult, analyzeJob, parseVars, maskVars, callVars>>
\* clearUpload
clearUpload ==
  /\ handleLogsUpload(<<>>)
  /\ serviceCall' = Null
  /\ analyzeAlert' = Null
  /\ maskRun' = Null
  /\ UNCHANGED <<isAnalyzing, isMasking, useOpenAI, openAIApiKey, aiRawResult, analyzeJob, parseVars, maskVars, callVars>>

\* variant of MaskEntryWith with a defect: the record literal lacks ...log,
\* so id, timestamp, level and component are not copied
MaskEntryWithoutSpread(log, h) ==
  [arg |-> IF log.headers = Undefined THEN log ELSE [log EXCEPT !.headers = Some(h.arg)],
   ret |-> [log EXCEPT !.id = <<>>, !.timestamp = <<>>, !.level = <<>>, !.component = Undefined,
                       !.message = maskSensitiveData(log.message),
                       !.url = Some(maskUrl(IF log.url = Undefined THEN <<>> ELSE log.url[1])),
                       !.headers = Some(h.ret)],
   aliased |-> FALSE,
   headersAliased |-> log.headers # Undefined /\ h.aliased]
\* the callback of logs.map in handleMaskLogs as a call: ret is the record
\* returned, arg is the record that was passed, as the call leaves it
MaskEntryWith(log, h) ==
  [arg |-> IF log.headers = Undefined THEN log ELSE [log EXCEPT !.headers = Some(h.arg)],
   ret |-> [log EXCEPT !.message = maskSensitiveData(log.message),
                       !.url = Some(maskUrl(IF log.url = Undefined THEN <<>> ELSE log.url[1])),
                       !.headers = Some(h.ret)],
   aliased |-> FALSE,
   headersAliased |-> log.headers # Undefined /\ h.aliased]
MaskEntryCall(log) == MaskEntryWith(log, maskHeadersCall(IF log.headers = Undefined THEN <<>> ELSE log.headers[1]))
\* the records the uploads of the inputs produce, and MaskEntryCall tabulated
\* over them
EntriesOf(ls) == {ls[j] : j \in 1..Len(ls)}
UploadedEntries == UNION {EntriesOf(UploadTable[u]) : u \in DOMAIN UploadTable}
MaskEntryTable == [log \in UploadedEntries |-> MaskEntryCall(log)] @@ <<>>
MaskEntryOf(log) == MaskEntryTable[log]
\* logs.map(...) as a call: the array mapped as the call leaves it, and the
\* array returned
MaskLogsResult(calls) ==
  [args |-> [k \in 1..Len(calls) |-> calls[k].arg],
   ret |-> [k \in 1..Len(calls) |-> calls[k].ret],
   aliased |-> \E k \in 1..Len(calls) : calls[k].aliased \/ calls[k].headersAliased]
MaskLogsCall(ls) == MaskLogsResult([k \in 1..Len(ls) |-> MaskEntryOf(ls[k])])

\* handleMaskLogs up to its await: the button shows while logs is not empty
\* and is enabled while isMasking is false
handleMaskLogsStart ==
  /\ Len(logs) > 0
  /\ ~isMasking
  /\ isMasking' = TRUE
  /\ maskJob' = Some([logs |-> logs, current |-> TRUE])
  /\ serviceCall' = Null
  /\ analyzeAlert' = Null
  /\ maskRun' = Null
  /\ UNCHANGED <<logs, maskedLogs, analysisResult, isAnalyzing, useOpenAI, openAIApiKey, aiRawResult, analyzeJob,
                 parseVars, maskVars, callVars>>
\* variant of handleMaskLogsFinish with a defect: no finally block, isMasking
\* is not reset
handleMaskLogsFinishWithoutFinally ==
  /\ maskJob # Null
  /\ \E call \in {MaskLogsCall(maskJob[1].logs)} :
       /\ logs' = IF maskJob[1].current THEN call.args ELSE logs
       /\ maskedLogs' = call.ret
       /\ maskRun' = Some([mapped |-> maskJob[1].logs, mappedAfter |-> call.args, produced |-> call.ret,
                           aliased |-> call.aliased, logsBefore |-> logs,
                           logsAfter |-> IF maskJob[1].current THEN call.args ELSE logs])
  /\ maskJob' = Null
  /\ serviceCall' = Null
  /\ analyzeAlert' = Null
  /\ UNCHANGED <<analysisResult, isAnalyzing, isMasking, useOpenAI, openAIApiKey, aiRawResult, analyzeJob, parseVars,
                 maskVars, callVars>>
\* handleMaskLogs after the delay: the logs of the render that was clicked
\* are mapped
handleMaskLogsFinish ==
  /\ maskJob # Null
  /\ \E call \in {MaskLogsCall(maskJob[1].logs)} :
       /\ logs' = IF maskJob[1].current THEN call.args ELSE logs
       /\ maskedLogs' = call.ret
       /\ maskRun' = Some([mapped |-> maskJob[1].logs, mappedAfter |-> call.args, produced |-> call.ret,
                           aliased |-> call.aliased, logsBefore |-> logs,
                           logsAfter |-> IF maskJob[1].current THEN call.args ELSE logs])
  /\ isMasking' = FALSE
  /\ maskJob' = Null
  /\ serviceCall' = Null
  /\ analyzeAlert' = Null
  /\ UNCHANGED <<analysisResult, isAnalyzing, useOpenAI, openAIApiKey, aiRawResult, analyzeJob, parseVars, maskVars, callVars>>

\* one element of logLines
LogLine(l) ==
  <<"[">> \o l.timestamp \o <<"]"," ","[">> \o l.level \o <<"]">>
    \o (IF l.component # Undefined /\ Len(l.component[1]) > 0 THEN <<" ","[">> \o l.component[1] \o <<"]">> ELSE <<>>)
    \o <<" ">> \o l.message
\* variant of logLines with a defect: the lines built from logs
logLinesFromLogs == [k \in 1..Len(logs) |-> LogLine(logs[k])]
\* const logLines = maskedLogs.map(...)
logLines == [k \in 1..Len(maskedLogs) |-> LogLine(maskedLogs[k])]

CountLevel(ls, level) == Cardinality({k \in 1..Len(ls) : ls[k].level = level})
\* variant of AnalysisOf with a defect: the warnings counted by the keyword
\* WARNING
AnalysisOfWarningKeyword(ls, aiResult) ==
  [summary |-> [totalLogs |-> Len(ls),
                errorCount |-> CountLevel(ls, <<"E","R","R","O","R">>),
                warningCount |-> CountLevel(ls, <<"W","A","R","N","I","N","G">>),
                infoCount |-> CountLevel(ls, <<"I","N","F","O">>),
                debugCount |-> CountLevel(ls, <<"D","E","B","U","G">>)],
   insights |-> <<aiResult>>,
   recommendations |-> <<>>,
   criticalIssues |-> <<>>]
\* the value given to setAnalysisResult
AnalysisOf(ls, aiResult) ==
  [summary |-> [totalLogs |-> Len(ls),
                errorCount |-> CountLevel(ls, <<"E","R","R","O","R">>),
                warningCount |-> CountLevel(ls, <<"W","A","R","N">>),
                infoCount |-> CountLevel(ls, <<"I","N","F","O">>),
                debugCount |-> CountLevel(ls, <<"D","E","B","U","G">>)],
   insights |-> <<aiResult>>,
   recommendations |-> <<>>,
   criticalIssues |-> <<>>]

\* handleAnalyzeLogs with useOpenAI and a key, up to its await: the service
\* is called with the lines of maskedLogs
handleAnalyzeLogsCall ==
  /\ Len(logs) > 0
  /\ ~isAnalyzing
  /\ Len(maskedLogs) > 0
  /\ useOpenAI /\ Len(openAIApiKey) > 0
  /\ isAnalyzing' = TRUE
  /\ aiRawResult' = Null
  /\ serviceCall' = Some([maskedLogs |-> logLines, apiKey |-> openAIApiKey])
  /\ analyzeAlert' = Null
  /\ analyzeJob' = Some(maskedLogs)
  /\ maskRun' = Null
  /\ UNCHANGED <<logs, maskedLogs, analysisResult, isMasking, useOpenAI, openAIApiKey, maskJob, parseVars, maskVars, callVars>>
\* handleAnalyzeLogs without useOpenAI: no call; isAnalyzing is set and reset
\* within the handler
handleAnalyzeLogsLocal ==
  /\ Len(logs) > 0
  /\ ~isAnalyzing
  /\ Len(maskedLogs) > 0
  /\ ~(useOpenAI /\ Len(openAIApiKey) > 0)
  /\ aiRawResult' = Null
  /\ serviceCall' = Null
  /\ analyzeAlert' = Null
  /\ maskRun' = Null
  /\ UNCHANGED <<logs, maskedLogs, analysisResult, isAnalyzing, isMasking, useOpenAI, openAIApiKey, maskJob, analyzeJob,
                 parseVars, maskVars, callVars>>
\* analyzeLogsWithOpenAI returns the text of the answer
handleAnalyzeLogsResolved ==
  /\ analyzeJob # Null
  /\ \E aiResult \in AiResults :
       /\ aiRawResult' = Some(aiResult)
       /\ analysisResult' = Some(AnalysisOf(analyzeJob[1], aiResult))
  /\ isAnalyzing' = FALSE
  /\ analyzeJob' = Null
  /\ serviceCall' = Null
  /\ analyzeAlert' = Null
  /\ maskRun' = Null
  /\ UNCHANGED <<logs, maskedLogs, isMasking, useOpenAI, openAIApiKey, maskJob, parseVars, maskVars, callVars>>
\* analyzeLogsWithOpenAI throws (request failed, response not OK or without
\* content): the catch block alerts the message of the error and the finally
\* block resets isAnalyzing
\* variant of handleAnalyzeLogsRejected with a defect: the catch block calls
\* the service once more
handleAnalyzeLogsRetrying ==
  /\ analyzeJob # Null
  /\ \E reason \in ServiceErrors : analyzeAlert' = Some(<<"E","r","r","o","r"," ","a","n","a","l","y","z","i","n","g"," ","l","o","g","s",":"," ">> \o reason)
  /\ serviceCall' = Some([maskedLogs |-> logLines, apiKey |-> openAIApiKey])
  /\ maskRun' = Null
  /\ UNCHANGED <<logs, maskedLogs, analysisResult, isAnalyzing, isMasking, useOpenAI, openAIApiKey, aiRawResult, maskJob,
                 analyzeJob, parseVars, maskVars, callVars>>
handleAnalyzeLogsRejected ==
  /\ analyzeJob # Null
  /\ \E reason \in ServiceErrors : analyzeAlert' = Some(<<"E","r","r","o","r"," ","a","n","a","l","y","z","i","n","g"," ","l","o","g","s",":"," ">> \o reason)
  /\ isAnalyzing' = FALSE
  /\ analyzeJob' = Null
  /\ serviceCall' = Null
  /\ maskRun' = Null
  /\ UNCHANGED <<logs, maskedLogs, analysisResult, isMasking, useOpenAI, openAIApiKey, aiRawResult, maskJob,
                 parseVars, maskVars, callVars>>
\* the useOpenAI checkbox
setUseOpenAI ==
  /\ Len(logs) > 0
  /\ useOpenAI' = ~useOpenAI
  /\ serviceCall' = Null
  /\ analyzeAlert' = Null
  /\ maskRun' = Null
  /\ UNCHANGED <<logs, maskedLogs, analysisResult, isAnalyzing, isMasking, openAIApiKey, aiRawResult, maskJob, analyzeJob,
                 parseVars, maskVars, callVars>>
\* the filters FilterControls hands to setFilters in the runs of App: a level
\* chosen, and the filters cleared
AppFilters == {NoFilters, [NoFilters EXCEPT !.logLevel = <<"E","R","R","O","R">>]}
\* onFiltersChange={setFilters}: FilterControls is rendered while logs is not
\* empty
setFilters ==
  /\ Len(logs) > 0
  /\ \E next \in AppFilters \ {filters} : filters' = next
  /\ serviceCall' = Null
  /\ analyzeAlert' = Null
  /\ maskRun' = Null
  /\ UNCHANGED <<logs, maskedLogs, analysisResult, isAnalyzing, isMasking, useOpenAI, openAIApiKey, aiRawResult, maskJob,
                 analyzeJob, parseVars, maskVars, urlVars, headersVars, previewLogs, filteredLogs, currentPage>>

Init == AppInit /\ ParseIdle /\ MaskIdle /\ CallsIdle
Next ==
  \/ handleTextSubmit
  \/ handleFile
  \/ clearUpload
  \/ handleMaskLogsStart
  \/ handleMaskLogsFinish
  \/ handleAnalyzeLogsCall
  \/ handleAnalyzeLogsLocal
  \/ handleAnalyzeLogsResolved
  \/ handleAnalyzeLogsRejected
  \/ setUseOpenAI
  \/ setFilters
Spec == Init /\ [][Next]_vars
\* the timer of handleMaskLogs fires, and the promise of
\* analyzeLogsWithOpenAI settles
Fairness ==
  /\ WF_vars(handleMaskLogsFinish)
  /\ WF_vars(handleAnalyzeLogsResolved \/ handleAnalyzeLogsRejected)
SpecLive == Spec /\ Fairness

-----------------------------------------------------------------------------
(* parseLogText, one forEach iteration per step *)

InitParse ==
  /\ text \in Texts
  /\ lines = NonBlankLines(text)
  /\ index = 0
  /\ parsed = <<>>
  /\ clock = <<>>
  /\ faults = {}
  /\ returned = FALSE
  /\ AppInit
  /\ MaskIdle
  /\ CallsIdle

LastReading == IF Len(clock) = 0 THEN 0 ELSE clock[Len(clock)]

\* one iteration whose try block completes
ParseLineNormally ==
  /\ ~returned
  /\ index < Len(lines)
  /\ \E now \in LastReading..MaxClock :
       /\ parsed' = parsed \o ParseLine(lines[index + 1], index, now, FALSE)
       /\ clock' = Append(clock, now)
  /\ index' = index + 1
  /\ UNCHANGED <<text, lines, faults, returned, appVars, maskVars, callVars>>
\* one iteration whose try block throws
ParseLineThrowing ==
  /\ ~returned
  /\ index < Len(lines)
  /\ Cardinality(faults) < MaxFaults
  /\ \E now \in LastReading..MaxClock :
       /\ parsed' = parsed \o ParseLine(lines[index + 1], index, now, TRUE)
       /\ clock' = Append(clock, now)
  /\ faults' = faults \cup {index + 1}
  /\ index' = index + 1
  /\ UNCHANGED <<text, lines, returned, appVars, maskVars, callVars>>
\* return logs
ParseReturn ==
  /\ ~returned
  /\ index = Len(lines)
  /\ returned' = TRUE
  /\ UNCHANGED <<text, lines, index, parsed, clock, faults, appVars, maskVars, callVars>>

NextParse == ParseLineNormally \/ ParseLineThrowing \/ ParseReturn
SpecParse == InitParse /\ [][NextParse]_vars

-----------------------------------------------------------------------------
(* maskSensitiveData applied to a message, and again to its own output *)

InitMask ==
  /\ message \in Messages
  /\ once = Null
  /\ twice = Null
  /\ AppInit
  /\ ParseIdle
  /\ CallsIdle

MaskFirst ==
  /\ once = Null
  /\ once' = Some(maskSensitiveData(message))
  /\ UNCHANGED <<message, twice, appVars, parseVars, callVars>>
MaskSecond ==
  /\ once # Null
  /\ twice = Null
  /\ twice' = Some(maskSensitiveData(once[1]))
  /\ UNCHANGED <<message, once, appVars, parseVars, callVars>>

NextMask == MaskFirst \/ MaskSecond
SpecMask == InitMask /\ [][NextMask]_vars


-----------------------------------------------------------------------------
(* maskUrl applied to a string *)

\* the strings given to maskUrl: an absolute URL, one with credentials, a
\* text that is no URL and a relative path, each without a query and with
\* queries of up to MaxToks parameters; and the empty string
UrlBases == {<<"h","t","t","p","s",":","/","/","x",".","c","o","m","/","a">>, <<"h","t","t","p",":","/","/","u",":","p","@","h",".","i","o","/">>, <<"n","o","t"," ","a"," ","r","e","a","l"," ","u","r","l">>, <<"/","p">>}
QueryParams == {<<"t","o","k","e","n","=","a","b","c","1","2","3">>, <<"p","a","g","e","=","2">>, <<"t","o","k","e","n","=","z","z">>, <<"a","p","i","K","e","y","=","k","1">>, <<"q","=","a","%","2","0","b">>, <<"a","u","t","h">>}
Queries == {<<>>} \cup {<<"?">> \o join(ps, "&") : ps \in SeqsUpTo(QueryParams, MaxToks) \ {<<>>}}
Urls == {b \o q : b \in UrlBases, q \in Queries} \cup {<<>>}

InitUrl ==
  /\ urlArg \in Urls
  /\ urlRet = Null
  /\ AppInit
  /\ ParseIdle
  /\ MaskIdle
  /\ HeadersIdle
  /\ PreviewIdle

\* the call returns
MaskUrlReturn ==
  /\ urlRet = Null
  /\ urlRet' = Some(maskUrl(urlArg))
  /\ UNCHANGED <<urlArg, appVars, parseVars, maskVars, headersVars, previewVars>>

NextUrl == MaskUrlReturn
SpecUrl == InitUrl /\ [][NextUrl]_vars

-----------------------------------------------------------------------------
(* maskHeaders applied to a mapping *)

\* the mappings given to maskHeaders: up to MaxToks entries with distinct
\* keys, in the order of insertion
HeaderKeys == {<<"A","u","t","h","o","r","i","z","a","t","i","o","n">>, <<"X","-","T","o","k","e","n">>, <<"A","p","i","-","K","e","y">>, <<"m","o","n","k","e","y">>, <<"C","o","n","t","e","n","t","-","T","y","p","e">>, <<"a">>}
HeaderValues == {<<"v","1">>, <<"*","*","*","M","A","S","K","E","D","*","*","*">>}
HeaderMaps ==
  {h \in SeqsUpTo(HeaderKeys \X HeaderValues, MaxToks) : \A j, k \in 1..Len(h) : j # k => h[j][1] # h[k][1]}

InitHeaders ==
  /\ headersArg \in HeaderMaps
  /\ headersRet = Null
  /\ AppInit
  /\ ParseIdle
  /\ MaskIdle
  /\ UrlIdle
  /\ PreviewIdle

\* the call returns
MaskHeadersReturn ==
  /\ headersRet = Null
  /\ headersRet' = Some(maskHeadersCall(headersArg))
  /\ UNCHANGED <<headersArg, appVars, parseVars, maskVars, urlVars, previewVars>>

NextHeaders == MaskHeadersReturn
SpecHeaders == InitHeaders /\ [][NextHeaders]_vars

-----------------------------------------------------------------------------
(* LogPreview: the memo filteredLogs under FilterControls *)

\* new Date(s) for a string in the date-time format of ECMAScript,
\* YYYY-MM-DDTHH:mm, optionally followed by :ss, by :ss.sss and by Z.  The
\* value is <<days since 1970-01-01, milliseconds of the day>>, or NaN for a
\* string of another shape or with a field out of range.  Local time (a
\* string without Z) is taken in a time zone without offset.
NaN == <<>>
TimeTail(r) == IF Len(r) > 0 /\ r[Len(r)] = "Z" THEN SubSeq(r, 1, Len(r) - 1) ELSE r
TimeTailShape(r) ==
  \/ Len(r) = 0
  \/ Len(r) = 3 /\ r[1] = ":" /\ r[2] \in Digit /\ r[3] \in Digit
  \/ Len(r) = 7 /\ r[1] = ":" /\ r[2] \in Digit /\ r[3] \in Digit /\ r[4] = "."
       /\ r[5] \in Digit /\ r[6] \in Digit /\ r[7] \in Digit
DateTimeShape(s) ==
  /\ Len(s) >= 16
  /\ \A k \in {1, 2, 3, 4, 6, 7, 9, 10, 12, 13, 15, 16} : s[k] \in Digit
  /\ s[5] = "-" /\ s[8] = "-" /\ s[11] = "T" /\ s[14] = ":"
  /\ TimeTailShape(TimeTail(SubSeq(s, 17, Len(s))))
NumberAt(s, a, b) == IF b <= Len(s) THEN DecimalValue(SubSeq(s, a, b), 0) ELSE 0
IsLeapYear(y) == (y % 4 = 0 /\ y % 100 # 0) \/ y % 400 = 0
DaysInMonth(y, m) ==
  IF m = 2 THEN (IF IsLeapYear(y) THEN 29 ELSE 28) ELSE IF m \in {4, 6, 9, 11} THEN 30 ELSE 31
\* the day count of a civil date since 1970-01-01
DaysOfYearStart(yy, m, d) ==
  (yy \div 400) * 146097 + (yy % 400) * 365 + ((yy % 400) \div 4) - ((yy % 400) \div 100)
    + ((153 * (IF m > 2 THEN m - 3 ELSE m + 9) + 2) \div 5) + d - 1 - 719468
DaysFromCivil(y, m, d) == DaysOfYearStart(IF m <= 2 THEN y - 1 ELSE y, m, d)
DateOfFields(y, mo, d, h, mi, sec, ms) ==
  IF /\ mo \in 1..12
     /\ d \in 1..DaysInMonth(y, mo)
     /\ (h \in 0..23 \/ (h = 24 /\ mi = 0 /\ sec = 0 /\ ms = 0))
     /\ mi \in 0..59
     /\ sec \in 0..59
  THEN <<DaysFromCivil(y, mo, d) + (IF h = 24 THEN 1 ELSE 0), (((h % 24) * 60 + mi) * 60 + sec) * 1000 + ms>>
  ELSE NaN
DateParse(s) ==
  IF DateTimeShape(s)
  THEN DateOfFields(NumberAt(s, 1, 4), NumberAt(s, 6, 7), NumberAt(s, 9, 10), NumberAt(s, 12, 13),
                    NumberAt(s, 15, 16), IF Len(s) >= 19 THEN NumberAt(s, 18, 19) ELSE 0,
                    IF Len(s) >= 23 THEN NumberAt(s, 21, 23) ELSE 0)
  ELSE NaN
\* a < b for two Date values: false when either is NaN
DateLess(a, b) == a # NaN /\ b # NaN /\ (a[1] < b[1] \/ (a[1] = b[1] /\ a[2] < b[2]))

startsWith(s, prefix) == Len(prefix) <= Len(s) /\ SubSeq(s, 1, Len(prefix)) = prefix

\* the five blocks of the callback of logs.filter: FALSE where the block
\* returns false
TimestampPasses(log, f) ==
  (Len(f.timestampRange.start) > 0 \/ Len(f.timestampRange.end) > 0) =>
    /\ ~(Len(f.timestampRange.start) > 0 /\ DateLess(DateParse(log.timestamp), DateParse(f.timestampRange.start)))
    /\ ~(Len(f.timestampRange.end) > 0 /\ DateLess(DateParse(f.timestampRange.end), DateParse(log.timestamp)))
LevelPasses(log, f) == ~(Len(f.logLevel) > 0 /\ log.level # f.logLevel)
\* variant of KeywordPasses with a defect: the letter case is compared
KeywordPassesCaseSensitive(log, f) == ~(Len(f.keyword) > 0 /\ ~includes(log.message, f.keyword))
KeywordPasses(log, f) == ~(Len(f.keyword) > 0 /\ ~includes(toLowerCase(log.message), toLowerCase(f.keyword)))
ComponentPasses(log, f) ==
  ~(Len(f.component) > 0
    /\ (log.component = Undefined \/ Len(log.component[1]) = 0
        \/ ~includes(toLowerCase(log.component[1]), toLowerCase(f.component))))
ResponseCodePasses(log, f) ==
  Len(f.responseCode) > 0 =>
    IF Len(f.responseCode) = 1
    THEN ~(log.responseCode = Undefined \/ Len(log.responseCode[1]) = 0 \/ ~startsWith(log.responseCode[1], f.responseCode))
    ELSE log.responseCode = Some(f.responseCode)
FilterCallback(log, f) ==
  /\ TimestampPasses(log, f)
  /\ LevelPasses(log, f)
  /\ KeywordPasses(log, f)
  /\ ComponentPasses(log, f)
  /\ ResponseCodePasses(log, f)
\* logs.filter(...)
FilterLogs(ls, f) == SelectSeq(ls, LAMBDA log : FilterCallback(log, f))

\* getActiveFilterCount
ActiveFilterCount(f) ==
  (IF Len(f.timestampRange.start) > 0 \/ Len(f.timestampRange.end) > 0 THEN 1 ELSE 0)
  + (IF Len(f.logLevel) > 0 THEN 1 ELSE 0) + (IF Len(f.keyword) > 0 THEN 1 ELSE 0)
  + (IF Len(f.component) > 0 THEN 1 ELSE 0) + (IF Len(f.responseCode) > 0 THEN 1 ELSE 0)

\* the records LogPreview is given: timestamps before, within, at the end of
\* and after the range of the filters, and one that is no calendar date
PreviewEntry(id, timestamp, level, msg, component, responseCode) ==
  [id |-> id, timestamp |-> timestamp, level |-> level, message |-> msg, url |-> Undefined,
   responseCode |-> responseCode, component |-> component, headers |-> Undefined]
PreviewEntries ==
  << PreviewEntry(<<"l","o","g","-","1">>, <<"2","0","2","4","-","0","1","-","1","5","T","1","0",":","3","0",":","4","5",".","0","0","0","Z">>, <<"E","R","R","O","R">>, <<"L","o","g","i","n"," ","E","R","R","O","R"," ","f","o","r"," ","b","o","b">>, Some(<<"A","u","t","h","S","e","r","v","i","c","e">>), Some(<<"5","0","0">>)),
     PreviewEntry(<<"l","o","g","-","2">>, <<"2","0","2","4","-","0","1","-","1","5","T","0","9",":","5","9",":","5","9","Z">>, <<"W","A","R","N">>, <<"s","l","o","w">>, Undefined, Undefined),
     PreviewEntry(<<"l","o","g","-","3">>, <<"2","0","2","4","-","1","3","-","4","5","T","1","0",":","3","0",":","4","5","Z">>, <<"I","N","F","O">>, <<"e","r","r","o","r"," ","u","p","s","t","r","e","a","m">>, Some(<<"d","b">>), Some(<<"4","0","4">>)),
     PreviewEntry(<<"l","o","g","-","4">>, <<"2","0","2","4","-","0","1","-","1","5","T","1","1",":","0","0",":","0","0","Z">>, <<"D","E","B","U","G">>, <<"x","1">>, Some(<<"a","u","t","h","z">>), Some(<<"5","0","3">>)),
     PreviewEntry(<<"l","o","g","-","5">>, <<"2","0","2","4","-","0","1","-","1","5","T","1","1",":","0","0",":","0","0",".","0","0","1","Z">>, <<"E","R","R","O","R">>, <<"E","r","r","o","r"," ","5","0">>, Some(<<"A","u","t","h">>), Some(<<"2","0","0">>)) >>
\* const logsPerPage = 50
logsPerPage == 50
\* more records than one page holds, errors and warnings in turn
ManyEntries ==
  [k \in 1..(logsPerPage + 1) |->
     PreviewEntry(<<"l","o","g","-">> \o ToDecimal(k), <<"2","0","2","4","-","0","1","-","1","5","T","1","0",":","3","0",":","4","5",".","0","0","0","Z">>, IF k % 2 = 1 THEN <<"E","R","R","O","R">> ELSE <<"W","A","R","N">>, <<"x","1">>,
                  Undefined, Undefined)]
PreviewLists == {PreviewEntries, SubSeq(PreviewEntries, 1, 2), SubSeq(PreviewEntries, 3, 5), ManyEntries}
\* the values the controls of FilterControls offer or take
StartValues == {<<>>, <<"2","0","2","4","-","0","1","-","1","5","T","1","0",":","0","0">>}
EndValues == {<<>>, <<"2","0","2","4","-","0","1","-","1","5","T","1","1",":","0","0">>}
LogLevelValues == {<<>>, <<"E","R","R","O","R">>, <<"W","A","R","N">>}
KeywordValues == {<<>>, <<"E","R","R">>}
ComponentValues == {<<>>, <<"a","u","t","h">>}
ResponseCodeValues == {<<>>, <<"5">>, <<"5","0","0">>}

\* Math.ceil(filteredLogs.length / logsPerPage)
totalPages == (Len(filteredLogs) + logsPerPage - 1) \div logsPerPage
\* filteredLogs.slice(startIndex, startIndex + logsPerPage)
slice(s, from, to) == SubSeq(s, from + 1, IF to < Len(s) THEN to ELSE Len(s))
paginatedLogs == slice(filteredLogs, (currentPage - 1) * logsPerPage, (currentPage - 1) * logsPerPage + logsPerPage)

InitPreview ==
  /\ previewLogs \in PreviewLists
  /\ filters = NoFilters
  /\ filteredLogs = FilterLogs(previewLogs, NoFilters)
  /\ currentPage = 1
  /\ AppInit
  /\ ParseIdle
  /\ MaskIdle
  /\ UrlIdle
  /\ HeadersIdle

\* onFiltersChange(next) and the render that follows
onFiltersChange(next) ==
  /\ filters' = next
  /\ filteredLogs' = FilterLogs(previewLogs, next)
  /\ UNCHANGED <<previewLogs, currentPage, appVars, parseVars, maskVars, urlVars, headersVars>>
\* updateFilter('timestampRange', {...filters.timestampRange, start | end})
updateTimestampRange ==
  \/ \E v \in StartValues : onFiltersChange([filters EXCEPT !.timestampRange.start = v])
  \/ \E v \in EndValues : onFiltersChange([filters EXCEPT !.timestampRange.end = v])
\* updateFilter(key, value) for the four other keys
updateFilter ==
  \/ \E v \in LogLevelValues : onFiltersChange([filters EXCEPT !.logLevel = v])
  \/ \E v \in KeywordValues : onFiltersChange([filters EXCEPT !.keyword = v])
  \/ \E v \in ComponentValues : onFiltersChange([filters EXCEPT !.component = v])
  \/ \E v \in ResponseCodeValues : onFiltersChange([filters EXCEPT !.responseCode = v])
\* clearAllFilters: the button is disabled while no filter is active
clearAllFilters ==
  /\ ActiveFilterCount(filters) # 0
  /\ onFiltersChange(NoFilters)

\* App renders LogPreview with other logs (an upload, or the masked records)
logsChange ==
  /\ \E next \in PreviewLists \ {previewLogs} :
       /\ previewLogs' = next
       /\ filteredLogs' = FilterLogs(next, filters)
  /\ UNCHANGED <<filters, currentPage, appVars, parseVars, maskVars, urlVars, headersVars>>

\* the numbered buttons of the pagination bar
Max(a, b) == IF a > b THEN a ELSE b
Min(a, b) == IF a < b THEN a ELSE b
PageButtons == {Max(1, Min(totalPages - 4, currentPage - 2)) + i : i \in 0..(Min(5, totalPages) - 1)}
\* goToPage(page): setCurrentPage(page)
goToPage(page) ==
  /\ currentPage' = page
  /\ UNCHANGED <<previewLogs, filters, filteredLogs, appVars, parseVars, maskVars, urlVars, headersVars>>
\* the pagination bar, rendered while totalPages > 1: Previous, the numbered
\* buttons, Next
Pagination ==
  /\ totalPages > 1
  /\ \/ currentPage # 1 /\ goToPage(currentPage - 1)
     \/ \E page \in PageButtons : goToPage(page)
     \/ currentPage # totalPages /\ goToPage(currentPage + 1)

NextPreview == updateTimestampRange \/ updateFilter \/ clearAllFilters \/ logsChange \/ Pagination
SpecPreview == InitPreview /\ [][NextPreview]_vars

-----------------------------------------------------------------------------
(* Properties of parseLogText *)

Levels == {<<"E","R","R","O","R">>, <<"W","A","R","N">>, <<"I","N","F","O">>, <<"D","E","B","U","G">>}
LevelKeywords == {<<"T","R","A","C","E">>, <<"D","E","B","U","G">>, <<"I","N","F","O">>, <<"W","A","R","N">>, <<"W","A","R","N","I","N","G">>, <<"E","R","R","O","R">>, <<"F","A","T","A","L">>, <<"C","R","I","T","I","C","A","L">>}

\* position i of the text starts a line's content: it holds the first
\* character of its line that is not white space
StartsContent(t, i) ==
  /\ t[i] \notin WhiteSpace
  /\ \A j \in 1..(i - 1) : (\A m \in j..(i - 1) : t[m] # "\n") => t[j] \in WhiteSpace
\* position i ends a line's content: the last character of its line that is
\* not white space
EndsContent(t, i) ==
  /\ t[i] \notin WhiteSpace
  /\ \A j \in (i + 1)..Len(t) : (\A m \in (i + 1)..j : t[m] # "\n") => t[j] \in WhiteSpace
ContentStarts(t) == {i \in 1..Len(t) : StartsContent(t, i)}
\* the trimmed content of the k-th line of t that is not blank
ContentOf(t, k) ==
  LET p == CHOOSE i \in ContentStarts(t) : Cardinality({j \in ContentStarts(t) : j <= i}) = k
      q == CHOOSE i \in p..Len(t) : EndsContent(t, i) /\ \A m \in p..i : t[m] # "\n"
  IN SubSeq(t, p, q)

\* keyword kw stands at position i of the line as a whole word, in any
\* letter case
KeywordAt(line, kw, i) ==
  /\ i + Len(kw) - 1 <= Len(line)
  /\ \A k \in 1..Len(kw) : toUpperCaseChar(line[i + k - 1]) = kw[k]
  /\ ~IsWordAt(line, i - 1)
  /\ ~IsWordAt(line, i + Len(kw))
HasWord(line, kw) == \E i \in 1..Len(line) : KeywordAt(line, kw, i)
HasKeyword(line) == \E kw \in LevelKeywords : HasWord(line, kw)
\* the level keyword that stands leftmost in a line that has one
FirstKeyword(line) ==
  CHOOSE kw \in LevelKeywords :
    \E i \in 1..Len(line) :
      /\ KeywordAt(line, kw, i)
      /\ \A other \in LevelKeywords : \A j \in 1..(i - 1) : ~KeywordAt(line, other, j)
LevelOfKeyword(kw) ==
  CASE kw = <<"W","A","R","N","I","N","G">> -> <<"W","A","R","N">>
    [] kw \in {<<"F","A","T","A","L">>, <<"C","R","I","T","I","C","A","L">>} -> <<"E","R","R","O","R">>
    [] kw = <<"T","R","A","C","E">> -> <<"D","E","B","U","G">>
    [] OTHER -> kw

\* C2: parseLogText returns one record per line that is not blank after
\* trimming, in the order of those lines, none dropped and none duplicated, on
\* the normal and on the fallback path: the k-th record carries the trimmed
\* content of the k-th non-blank line.
C2_OneRecordPerNonBlankLine ==
  returned =>
    /\ Len(parsed) = Cardinality(ContentStarts(text))
    /\ \A k \in 1..Len(parsed) : parsed[k].message = ContentOf(text, k)
\* a call returned for a text with a blank line between two others, one of
\* which took the fallback path
C2_Witness ==
  /\ returned
  /\ Len(parsed) = 2
  /\ Cardinality(faults) = 1
  /\ Len(split(text, "\n")) = 3

\* C7: every record returned by parseLogText, from the try block or from the
\* catch block, has one of the four levels, and a line without a level
\* keyword gets INFO.
C7_LevelInEnumeration ==
  returned =>
    \A k \in 1..Len(parsed) :
      /\ parsed[k].level \in Levels
      /\ ~HasKeyword(lines[k]) => parsed[k].level = <<"I","N","F","O">>
\* a call returned one record from the catch block and one from the try block
\* for a line without keyword
C7_Witness ==
  /\ returned
  /\ \E k \in 1..Len(parsed) : k \in faults
  /\ \E k \in 1..Len(parsed) : k \notin faults /\ ~HasKeyword(lines[k])
\* C8 as stated: a line that contains WARNING yields WARN, one that contains
\* CRITICAL or FATAL yields ERROR, one that contains TRACE yields DEBUG,
\* whatever else the line contains (here only for lines whose extraction did
\* not throw).
C8_AnyKeywordDecides ==
  returned =>
    \A k \in 1..Len(parsed) :
      k \notin faults =>
        /\ HasWord(lines[k], <<"W","A","R","N","I","N","G">>) => parsed[k].level = <<"W","A","R","N">>
        /\ (HasWord(lines[k], <<"C","R","I","T","I","C","A","L">>) \/ HasWord(lines[k], <<"F","A","T","A","L">>)) => parsed[k].level = <<"E","R","R","O","R">>
        /\ HasWord(lines[k], <<"T","R","A","C","E">>) => parsed[k].level = <<"D","E","B","U","G">>
\* C8 amended: the leftmost level keyword of the line decides (WARNING gives
\* WARN, CRITICAL and FATAL give ERROR, TRACE gives DEBUG, the four level
\* names give themselves), keywords further right have no effect, and a line
\* whose extraction threw gets INFO.
C8_LeftmostKeywordDecides ==
  returned =>
    \A k \in 1..Len(parsed) :
      /\ (k \notin faults /\ HasKeyword(lines[k])) => parsed[k].level = LevelOfKeyword(FirstKeyword(lines[k]))
      /\ k \in faults => parsed[k].level = <<"I","N","F","O">>
\* a line with two keywords of different levels was parsed by the try block
C8_Witness ==
  /\ returned
  /\ \E k \in 1..Len(parsed) :
       /\ k \notin faults
       /\ HasWord(lines[k], <<"W","A","R","N","I","N","G">>)
       /\ HasWord(lines[k], <<"C","R","I","T","I","C","A","L">>)

\* C9: the k-th record returned by one call has id "log-k", so the ids are
\* pairwise distinct and in order, whichever path produced the record.
C9_IdsByPosition ==
  returned =>
    /\ \A k \in 1..Len(parsed) : parsed[k].id = <<"l","o","g","-">> \o <<DigitSeq[k + 1]>>
    /\ \A j, k \in 1..Len(parsed) : j # k => parsed[j].id # parsed[k].id
\* a call returned two records, the second from the catch block, for a text
\* that starts with a blank line
C9_Witness ==
  /\ returned
  /\ Len(parsed) = 2
  /\ faults = {2}
  /\ Len(split(text, "\n")) = 3
  /\ ContentStarts(text) # {} /\ ~StartsContent(text, 1)

\* C10: when the extraction of a line throws, the call still returns one
\* record per line; the record of the faulty line is the fallback record (id
\* of its position, the clock reading as timestamp, INFO, the trimmed line,
\* every optional field unset) and every other record is the one the call
\* returns for the same text and clock without any fault.
C10_FaultIsolated ==
  returned =>
    LET faultFree == parseLogText(text, clock, {})
    IN /\ Len(parsed) = Len(faultFree)
       /\ \A k \in 1..Len(parsed) :
            IF k \in faults
            THEN parsed[k] = [id |-> <<"l","o","g","-">> \o <<DigitSeq[k + 1]>>, timestamp |-> NowISO(clock[k]),
                              level |-> <<"I","N","F","O">>, message |-> ContentOf(text, k), url |-> Undefined,
                              responseCode |-> Undefined, component |-> Undefined, headers |-> Undefined]
            ELSE parsed[k] = faultFree[k]
\* a call returned after the extraction threw on a line that has fields to
\* extract, with another line before it
C10_Witness ==
  /\ returned
  /\ 2 \in faults
  /\ parsed[2] # parseLogText(text, clock, {})[2]
  /\ parsed[1].url # Undefined

-----------------------------------------------------------------------------
(* Properties of maskSensitiveData *)

\* the positions of s at which the text sub stands
Occurrences(s, sub) == {i \in 1..(Len(s) - Len(sub) + 1) : SubSeq(s, i, i + Len(sub) - 1) = sub}
Contains(s, sub) == Occurrences(s, sub) # {}

\* C3: maskSensitiveData is idempotent, a second pass rewrites nothing,
\* sentinel tokens and texts that contain one included.
C3_Idempotent == twice # Null => twice = once

\* C4 as stated: for every string that contains password=secret123 the output
\* contains no secret123.
C4_NoSecretInOutput ==
  (once # Null /\ Contains(message, <<"p","a","s","s","w","o","r","d","=","s","e","c","r","e","t","1","2","3">>)) => ~Contains(once[1], <<"s","e","c","r","e","t","1","2","3">>)
\* the text secret123 stands in s, read without regard to letter case and
\* with percent escapes decoded, only as the value of password=secret123
OnlyAsPasswordValue(s) ==
  Cardinality(Occurrences(toLowerCase(PercentDecode(s)), <<"s","e","c","r","e","t","1","2","3">>))
    = Cardinality(Occurrences(s, <<"p","a","s","s","w","o","r","d","=","s","e","c","r","e","t","1","2","3">>))
\* C4 amended: for every string of ASCII characters that contains
\* password=secret123 and in which secret123, read without regard to letter
\* case and with percent escapes decoded, stands nowhere else, the output
\* contains no secret123.
C4_PasswordValueMasked ==
  (once # Null /\ Contains(message, <<"p","a","s","s","w","o","r","d","=","s","e","c","r","e","t","1","2","3">>) /\ OnlyAsPasswordValue(message))
    => ~Contains(once[1], <<"s","e","c","r","e","t","1","2","3">>)
\* a message with password=secret123 and a URL beside it was masked
C4_Witness ==
  /\ once # Null
  /\ Contains(message, <<"p","a","s","s","w","o","r","d","=","s","e","c","r","e","t","1","2","3">>)
  /\ Contains(message, <<"h","t","t","p",":","/","/">>)
  /\ OnlyAsPasswordValue(message)
  /\ Contains(once[1], <<"p","a","s","s","w","o","r","d","=","*","*","*","M","A","S","K","E","D","*","*","*">>)

-----------------------------------------------------------------------------
(* Properties of App *)

\* the lines handleAnalyzeLogs builds from a list of records
LinesOf(ls) == [k \in 1..Len(ls) |-> LogLine(ls[k])]
\* the record r is the record the masking callback returns for some record
\* of an upload
IsMaskOutput(r) == \E e \in UploadedEntries : r = MaskEntryOf(e).ret

\* C1: whenever analyzeLogsWithOpenAI is called, maskedLogs is not empty, the
\* lines passed are the lines built from the records of maskedLogs, and each
\* of those records is an output of the masking of handleMaskLogs.
C1_ServiceReceivesMaskedLines ==
  serviceCall # Null =>
    /\ Len(maskedLogs) > 0
    /\ serviceCall[1].maskedLogs = LinesOf(maskedLogs)
    /\ \A k \in 1..Len(maskedLogs) : IsMaskOutput(maskedLogs[k])
\* the service is called while the lines built from logs differ from the
\* lines built from maskedLogs
C1_Witness ==
  /\ serviceCall # Null
  /\ Len(logs) = Len(maskedLogs)
  /\ LinesOf(logs) # LinesOf(maskedLogs)

\* C5: the array handleMaskLogs produces has the length of the array it
\* maps, and its k-th record has the id, timestamp, level and component of
\* the k-th record mapped.
C5_MaskKeepsIdentityFields ==
  maskRun # Null =>
    /\ Len(maskRun[1].produced) = Len(maskRun[1].mapped)
    /\ \A k \in 1..Len(maskRun[1].mapped) :
         /\ maskRun[1].produced[k].id = maskRun[1].mapped[k].id
         /\ maskRun[1].produced[k].timestamp = maskRun[1].mapped[k].timestamp
         /\ maskRun[1].produced[k].level = maskRun[1].mapped[k].level
         /\ maskRun[1].produced[k].component = maskRun[1].mapped[k].component
\* a run mapped two records, one with a component, and changed the message
\* and the url of one of them
C5_Witness ==
  /\ maskRun # Null
  /\ Len(maskRun[1].mapped) = 2
  /\ \E k \in 1..2 :
       /\ maskRun[1].mapped[k].component # Undefined
       /\ maskRun[1].produced[k].message # maskRun[1].mapped[k].message
       /\ maskRun[1].produced[k].url # maskRun[1].mapped[k].url

\* C6: a run of handleMaskLogs leaves the logs state as it was, leaves every
\* record of the array it maps as it was, and no record or headers mapping
\* it produces is the object it was given.
C6_MaskDoesNotMutate ==
  maskRun # Null =>
    /\ maskRun[1].logsAfter = maskRun[1].logsBefore
    /\ maskRun[1].mappedAfter = maskRun[1].mapped
    /\ ~maskRun[1].aliased
\* a run mapped a record whose headers hold a key that is masked
C6_Witness ==
  /\ maskRun # Null
  /\ \E k \in 1..Len(maskRun[1].mapped) :
       /\ maskRun[1].mapped[k].headers # Undefined
       /\ maskRun[1].produced[k].headers # maskRun[1].mapped[k].headers

-----------------------------------------------------------------------------
(* Properties of parseLogText: a second invocation *)

\* the clock readings a call over n lines can get: one per line, never
\* decreasing
Readings(n) == {c \in [1..n -> 0..MaxClock] : \A i \in 1..(n - 1) : c[i] <= c[i + 1]}
\* one of the four timestamp families matches the line
HasTimestamp(line) == \E p \in 1..Len(timestampPatterns) : match(line, timestampPatterns[p]) # NoMatch
\* the record without its timestamp
WithoutTimestamp(r) == [r EXCEPT !.timestamp = <<>>]

\* C11 as stated: a second invocation of parseLogText on the same text, at
\* whatever clock readings, returns the records the first returned, every
\* field equal, timestamp included.
C11_Deterministic ==
  returned => \A again \in Readings(Len(lines)) : parseLogText(text, again, faults) = parsed
\* C11 amended: a second invocation on the same text (with the extraction
\* throwing on the same lines) returns as many records, equal to the first
\* ones in every field other than timestamp; the timestamps are equal too
\* for a line that a timestamp family matches and whose extraction did not
\* throw, and are each invocation's own clock reading for every other line.
C11_DeterministicButForClock ==
  returned =>
    \A again \in Readings(Len(lines)) :
      \E other \in {parseLogText(text, again, faults)} :
        /\ Len(other) = Len(parsed)
        /\ \A k \in 1..Len(parsed) :
             /\ WithoutTimestamp(other[k]) = WithoutTimestamp(parsed[k])
             /\ IF k \notin faults /\ HasTimestamp(lines[k])
                THEN other[k].timestamp = parsed[k].timestamp
                ELSE /\ parsed[k].timestamp = NowISO(clock[k])
                     /\ other[k].timestamp = NowISO(again[k])
\* a call returned for a line with a timestamp and a line without one, and
\* a second call at other clock readings returns other records
C11_Witness ==
  /\ returned
  /\ Len(parsed) = 2
  /\ faults = {}
  /\ HasTimestamp(lines[1])
  /\ ~HasTimestamp(lines[2])
  /\ \E again \in Readings(2) : parseLogText(text, again, faults) # parsed

-----------------------------------------------------------------------------
(* Properties of maskUrl *)

\* new URL(s) succeeds
ParsesAsUrl(s) == URLParse(s).ok
\* the query parameters of a string that parses as a URL, as
\* url.searchParams reads them: pairs of a name and a value
QueryParameters(s) == SearchParams(URLParse(s))
\* the name contains token, key, password, secret or auth, in any letter case
SensitiveName(name) ==
  \E w \in {<<"t","o","k","e","n">>, <<"k","e","y">>, <<"p","a","s","s","w","o","r","d">>, <<"s","e","c","r","e","t">>, <<"a","u","t","h">>} : Contains(toLowerCase(name), w)
\* the parameters of the list whose name is not sensitive, in order
OtherParameters(ps) == SelectSeq(ps, LAMBDA p : ~SensitiveName(p[1]))
\* the list with the value of every parameter of a sensitive name replaced
EachSensitiveReplaced(ps) ==
  [k \in 1..Len(ps) |-> IF SensitiveName(ps[k][1]) THEN <<ps[k][1], <<"*","*","*","M","A","S","K","E","D","*","*","*">>>> ELSE ps[k]]
\* the list without the parameters that repeat the sensitive name of an
\* earlier parameter
WithoutRepeats(ps) ==
  SelectSeq([k \in 1..Len(ps) |-> <<k, ps[k]>>],
            LAMBDA e : ~(SensitiveName(e[2][1]) /\ \E j \in 1..(e[1] - 1) : ps[j][1] = e[2][1]))
FirstOfEachSensitiveReplaced(ps) ==
  EachSensitiveReplaced([k \in 1..Len(WithoutRepeats(ps)) |-> WithoutRepeats(ps)[k][2]])

\* C12 as stated: for a string that parses as a URL, the parameters of the
\* result are those of the argument, one for one, with the value of every
\* parameter of a sensitive name replaced by ***MASKED*** and every other
\* parameter as it was.
C12_EveryParameterReplaced ==
  (urlRet # Null /\ ParsesAsUrl(urlArg)) =>
    QueryParameters(urlRet[1]) = EachSensitiveReplaced(QueryParameters(urlArg))
\* C12 amended: for a string that parses as a URL, the result parses as a
\* URL whose parameters are those of the argument, in order, without the
\* parameters that repeat the sensitive name of an earlier one, the value of
\* each remaining parameter of a sensitive name replaced by ***MASKED***, the
\* name and (decoded) value of every other parameter as it was.
C12_FirstOfEachNameReplaced ==
  (urlRet # Null /\ ParsesAsUrl(urlArg)) =>
    /\ ParsesAsUrl(urlRet[1])
    /\ QueryParameters(urlRet[1]) = FirstOfEachSensitiveReplaced(QueryParameters(urlArg))
    /\ OtherParameters(QueryParameters(urlRet[1])) = OtherParameters(QueryParameters(urlArg))
    /\ \A k \in 1..Len(QueryParameters(urlRet[1])) :
         SensitiveName(QueryParameters(urlRet[1])[k][1]) => QueryParameters(urlRet[1])[k][2] = <<"*","*","*","M","A","S","K","E","D","*","*","*">>
\* maskUrl returned for a URL with a parameter of a sensitive name and an
\* encoded parameter of another name, and the parameter token = abc123 is gone
C12_Witness ==
  /\ urlRet # Null
  /\ ParsesAsUrl(urlArg)
  /\ \E k \in 1..Len(QueryParameters(urlArg)) : QueryParameters(urlArg)[k] = <<<<"t","o","k","e","n">>, <<"a","b","c","1","2","3">>>>
  /\ \E k \in 1..Len(QueryParameters(urlArg)) : QueryParameters(urlArg)[k] = <<<<"q">>, <<"a"," ","b">>>>
  /\ \A k \in 1..Len(QueryParameters(urlRet[1])) : QueryParameters(urlRet[1])[k][2] # <<"a","b","c","1","2","3">>
  /\ Contains(urlRet[1], <<"t","o","k","e","n","=","*","*","*","M","A","S","K","E","D","*","*","*">>)

\* position i of s lies in a pair that follows a ? or & and has a = after a
\* sensitive name: the position of that = (0 when there is none)
PairSeparatorBefore(s, i) ==
  IF \E p \in 1..i : s[p] \in {"?", "&"} THEN CHOOSE p \in 1..i : s[p] \in {"?", "&"} /\ \A j \in (p + 1)..i : s[j] \notin {"?", "&"}
  ELSE 0
PairEnd(s, p) ==
  IF \E q \in (p + 1)..Len(s) : s[q] \in {"?", "&"} THEN CHOOSE q \in (p + 1)..Len(s) : s[q] \in {"?", "&"} /\ \A j \in (p + 1)..(q - 1) : s[j] \notin {"?", "&"}
  ELSE Len(s) + 1
EqualsOfPair(s, p) ==
  IF p > 0 /\ \E e \in (p + 1)..(PairEnd(s, p) - 1) : s[e] = "="
  THEN CHOOSE e \in (p + 1)..(PairEnd(s, p) - 1) : s[e] = "=" /\ \A j \in (p + 1)..(e - 1) : s[j] # "="
  ELSE 0
SensitiveEqualsOf(s, p, e) == IF e > 0 /\ SensitiveName(SubSeq(s, p + 1, e - 1)) THEN e ELSE 0
SensitiveEqualsBefore(s, i) ==
  SensitiveEqualsOf(s, PairSeparatorBefore(s, i), EqualsOfPair(s, PairSeparatorBefore(s, i)))
\* what position i of s contributes to s with the value of every pair of a
\* sensitive name replaced
ReplacedAt(s, i, e) ==
  IF e = 0 \/ i < e THEN <<s[i]>>
  ELSE IF i = e THEN <<"=","*","*","*","M","A","S","K","E","D","*","*","*">>
  ELSE <<>>
EachPairValueReplaced(s) ==
  LET pieces == [i \in 1..Len(s) |-> ReplacedAt(s, i, SensitiveEqualsBefore(s, i))]
      RECURSIVE Cat(_)
      Cat(k) == IF k > Len(s) THEN <<>> ELSE pieces[k] \o Cat(k + 1)
  IN Cat(1)

\* C13: for a string that does not parse as a URL, maskUrl returns the string
\* with the value of every pair name=value that follows a ? or & and whose
\* name contains token, key, password, secret or auth replaced by
\* ***MASKED***, and every other character as it was.
C13_FallbackMasksEveryPair ==
  (urlRet # Null /\ ~ParsesAsUrl(urlArg)) => urlRet[1] = EachPairValueReplaced(urlArg)

-----------------------------------------------------------------------------
(* Properties of maskHeaders *)

KeysOf(h) == {h[k][1] : k \in 1..Len(h)}
ValueOf(h, key) == h[CHOOSE k \in 1..Len(h) : h[k][1] = key][2]
\* the lower-cased key contains authorization, token or key
SensitiveKey(key) == \E w \in {<<"a","u","t","h","o","r","i","z","a","t","i","o","n">>, <<"t","o","k","e","n">>, <<"k","e","y">>} : Contains(toLowerCase(key), w)

\* C14: the mapping maskHeaders returns has the keys of its argument, each
\* once; the value of a key is ***MASKED*** when the lower-cased key contains
\* authorization, token or key, and the value the argument gives it
\* otherwise.
C14_HeadersMaskedByKey ==
  headersRet # Null =>
    /\ KeysOf(headersRet[1].ret) = KeysOf(headersArg)
    /\ Len(headersRet[1].ret) = Len(headersArg)
    /\ \A key \in KeysOf(headersArg) :
         ValueOf(headersRet[1].ret, key) = IF SensitiveKey(key) THEN <<"*","*","*","M","A","S","K","E","D","*","*","*">> ELSE ValueOf(headersArg, key)
\* maskHeaders returned for a mapping with a key in capitals that is masked
\* and a key that is not
C14_Witness ==
  /\ headersRet # Null
  /\ Len(headersArg) = 2
  /\ ValueOf(headersArg, headersArg[1][1]) = <<"v","1">>
  /\ ValueOf(headersArg, headersArg[2][1]) = <<"v","1">>
  /\ headersArg[1][1] = <<"A","u","t","h","o","r","i","z","a","t","i","o","n">>
  /\ ~SensitiveKey(headersArg[2][1])
  /\ headersRet[1].ret # headersArg

-----------------------------------------------------------------------------
(* Properties of the field extraction of parseLogText *)

\* a bracketed group starts at position i of the line: a [, then one or more
\* characters other than ], then a ]
GroupStartsAt(line, i) ==
  /\ line[i] = "["
  /\ i + 2 <= Len(line)
  /\ line[i + 1] # "]"
  /\ \E j \in (i + 2)..Len(line) : line[j] = "]"
HasGroup(line) == \E i \in 1..Len(line) : GroupStartsAt(line, i)
\* the content of the first bracketed group of a line that has one
FirstGroupContent(line) ==
  LET i == CHOOSE a \in 1..Len(line) : GroupStartsAt(line, a) /\ \A b \in 1..(a - 1) : ~GroupStartsAt(line, b)
      j == CHOOSE c \in (i + 2)..Len(line) : line[c] = "]" /\ \A b \in (i + 1)..(c - 1) : line[b] # "]"
  IN SubSeq(line, i + 1, j - 1)
\* the component families that match the line, by their rank
FamiliesMatching(line) == {f \in 1..Len(componentPatterns) : match(line, componentPatterns[f]) # NoMatch}
\* the first match of the family of rank f
FamilyCapture(line, f) == Group1(line, match(line, componentPatterns[f]))

\* C15: for every line parsed by the try block, a line with a bracketed group
\* gets the content of its first bracketed group as component, whatever
\* stands before the group; otherwise the component is the first match of the
\* highest family that matches, and is unset when no family matches.
C15_ComponentByFamilyPriority ==
  returned =>
    \A k \in 1..Len(parsed) :
      k \notin faults =>
        /\ HasGroup(lines[k]) => parsed[k].component = Some(FirstGroupContent(lines[k]))
        /\ FamiliesMatching(lines[k]) = {} => parsed[k].component = Undefined
        /\ \A f \in FamiliesMatching(lines[k]) :
             (\A h \in 1..(f - 1) : h \notin FamiliesMatching(lines[k]))
               => parsed[k].component = Some(FamilyCapture(lines[k], f))
\* a line was parsed in which a word of the suffix family stands before a
\* bracketed group
C15_Witness ==
  /\ returned
  /\ Len(parsed) = 1
  /\ faults = {}
  /\ {1, 2} \subseteq FamiliesMatching(lines[1])
  /\ FamilyCapture(lines[1], 2) = <<"U","s","e","r","C","o","n","t","r","o","l","l","e","r">>
  /\ parsed[1].component = Some(<<"A","u","t","h","S","e","r","v","i","c","e">>)

\* a run of exactly 13 digits starts at position i of the line: 13 digits
\* with no digit before and none after
ExactRunAt(line, i) ==
  /\ i + 12 <= Len(line)
  /\ \A j \in i..(i + 12) : line[j] \in Digit
  /\ ~(i > 1 /\ line[i - 1] \in Digit)
  /\ ~(i + 13 <= Len(line) /\ line[i + 13] \in Digit)
HasExactRun(line) == \E i \in 1..Len(line) : ExactRunAt(line, i)
FirstExactRun(line) ==
  LET i == CHOOSE a \in 1..Len(line) : ExactRunAt(line, a) /\ \A b \in 1..(a - 1) : ~ExactRunAt(line, b)
  IN SubSeq(line, i, i + 12)
\* none of the ISO, slash-date and syslog families matches the line
NoOtherFamily(line) == \A p \in 1..3 : match(line, timestampPatterns[p]) = NoMatch

\* C16: for a line parsed by the try block that none of the ISO, slash-date
\* and syslog families matches, the timestamp is the ISO-8601 form of the
\* first run of exactly 13 digits when the line has one (for 1700000000000,
\* 2023-11-14T22:13:20.000Z), and the clock reading otherwise: a run of more
\* than 13 digits gives no timestamp.
C16_EpochIsExactly13Digits ==
  returned =>
    \A k \in 1..Len(parsed) :
      (k \notin faults /\ NoOtherFamily(lines[k])) =>
        /\ parsed[k].timestamp =
             IF HasExactRun(lines[k]) THEN toISOString(FirstExactRun(lines[k])) ELSE NowISO(clock[k])
        /\ (HasExactRun(lines[k]) /\ FirstExactRun(lines[k]) = <<"1","7","0","0","0","0","0","0","0","0","0","0","0">>)
             => parsed[k].timestamp = <<"2","0","2","3","-","1","1","-","1","4","T","2","2",":","1","3",":","2","0",".","0","0","0","Z">>

-----------------------------------------------------------------------------
(* Properties of maskSensitiveData: credential pairs *)

\* credential pairs as they stand in messages: key, separator, value
CredentialPairs == {<<<<"p","a","s","s","w","o","r","d">>, <<"=">>, <<"s","e","c","r","e","t","1","2","3">>>>, <<<<"A","p","i","-","K","e","y">>, <<":">>, <<"k","1","x">>>>}

\* C17: where a message holds a credential pair, the output holds the key
\* text and the separator as they were written, followed by ***MASKED*** in
\* the place of the value.
C17_KeyAndSeparatorKept ==
  once # Null =>
    \A p \in CredentialPairs :
      Contains(message, p[1] \o p[2] \o p[3]) => Contains(once[1], p[1] \o p[2] \o <<"*","*","*","M","A","S","K","E","D","*","*","*">>)

-----------------------------------------------------------------------------
(* Properties of the replacement texts *)

SentinelTokens ==
  {<<"*","*","*","M","A","S","K","E","D","*","*","*">>, <<"*","*","*","I","P","_","M","A","S","K","E","D","*","*","*">>, <<"*","*","*","I","P","v","6","_","M","A","S","K","E","D","*","*","*">>, <<"*","*","*","E","M","A","I","L","_","M","A","S","K","E","D","*","*","*">>, <<"*","*","*","P","H","O","N","E","_","M","A","S","K","E","D","*","*","*">>,
   <<"*","*","*","C","A","R","D","_","M","A","S","K","E","D","*","*","*">>, <<"*","*","*","S","S","N","_","M","A","S","K","E","D","*","*","*">>, <<"*","*","*","P","A","T","H","_","M","A","S","K","E","D","*","*","*">>, <<"*","*","*","U","U","I","D","_","M","A","S","K","E","D","*","*","*">>, <<"*","*","*","H","A","S","H","_","M","A","S","K","E","D","*","*","*">>}
\* position i of s lies within an occurrence of one of the texts
CoveredBy(s, i, texts) == \E t \in texts : \E p \in Occurrences(s, t) : p <= i /\ i < p + Len(t)
\* every asterisk of s lies within an occurrence of one of the texts
AsterisksWithin(s, texts) == \A i \in 1..Len(s) : s[i] = "*" => CoveredBy(s, i, texts)
\* the user-info maskUrl writes: *** for the username and for the password
MaskedUserInfo == <<"/","/","*","*","*",":","*","*","*","@">>

-----------------------------------------------------------------------------
(* C19: the filtered list of LogPreview *)

RangeActive(f) == f.timestampRange.start # <<>> \/ f.timestampRange.end # <<>>
ValidTimestamp(log) == DateParse(log.timestamp) # NaN
\* a <= b for two instants
NotAfter(a, b) == a[1] < b[1] \/ (a[1] = b[1] /\ a[2] <= b[2])
WithinInclusiveRange(log, f) ==
  /\ ValidTimestamp(log)
  /\ f.timestampRange.start # <<>> => NotAfter(DateParse(f.timestampRange.start), DateParse(log.timestamp))
  /\ f.timestampRange.end # <<>> => NotAfter(DateParse(log.timestamp), DateParse(f.timestampRange.end))
ContainsNoCase(s, part) == includes(toLowerCase(s), toLowerCase(part))
SatisfiesEveryActive(log, f) ==
  /\ RangeActive(f) => WithinInclusiveRange(log, f)
  /\ f.logLevel # <<>> => log.level = f.logLevel
  /\ f.keyword # <<>> => ContainsNoCase(log.message, f.keyword)
  /\ f.component # <<>> => log.component # Undefined /\ ContainsNoCase(log.component[1], f.component)
  /\ f.responseCode # <<>> =>
       /\ log.responseCode # Undefined
       /\ IF Len(f.responseCode) = 1
          THEN startsWith(log.responseCode[1], f.responseCode)
          ELSE log.responseCode[1] = f.responseCode
\* the records the timestamp predicate can be decided for
Decidable(log, f) == ~RangeActive(f) \/ ValidTimestamp(log)
RetainedIds == {filteredLogs[i].id : i \in DOMAIN filteredLogs}

-----------------------------------------------------------------------------
(* C20: a failed call of analyzeLogsWithOpenAI *)

\* C20: in the step in which the call of analyzeLogsWithOpenAI fails (the
\* catch block of handleAnalyzeLogs alerts), no call is made, logs, maskedLogs
\* and analysisResult keep their values and isAnalyzing is false afterwards;
\* and a call is only made by a step that starts a handleAnalyzeLogs run, so
\* no run calls twice.
C20_FailedCallLeavesRecords ==
  [][/\ analyzeAlert' # Null =>
          /\ serviceCall' = Null
          /\ logs' = logs
          /\ maskedLogs' = maskedLogs
          /\ analysisResult' = analysisResult
          /\ isAnalyzing' = FALSE
          /\ analyzeJob' = Null
     /\ serviceCall' # Null => analyzeJob = Null /\ analyzeJob' # Null]_vars
\* the call failed with the response not OK, after an earlier call had
\* succeeded: the masked records and the earlier result are still there
C20_Witness ==
  /\ analyzeAlert = Some(<<"E","r","r","o","r"," ","a","n","a","l","y","z","i","n","g"," ","l","o","g","s",":"," ","O","p","e","n","A","I"," ","A","P","I"," ","e","r","r","o","r"," ","(","4","0","1",")",":"," ","U","n","a","u","t","h","o","r","i","z","e","d">>)
  /\ Len(maskedLogs) > 0
  /\ analysisResult # Null
  /\ ~isAnalyzing

-----------------------------------------------------------------------------
(* C21: the url of a parsed record *)

\* the first match of a URL family in the line, as text; <<>> when the family
\* does not match
FamilyUrl(line, family) ==
  IF match(line, family) = NoMatch THEN <<>> ELSE <<Group0(line, match(line, family))>>
\* the line holds a scheme:// token and no http(s):// URL
OnlyOtherScheme(line) ==
  /\ FamilyUrl(line, UrlPatternHttpCase) = <<>>
  /\ FamilyUrl(line, UrlPatternScheme) # <<>>

\* C21: for every line parsed by the try block the url is the first match of
\* the http(s):// family if the line has one, otherwise the first match of the
\* path family, otherwise the first match of the scheme:// family, otherwise
\* unset; and a line with a scheme:// token and no http(s):// URL gets that
\* token as url exactly when the path family finds no match in the line.
C21_UrlByFamilyPriority ==
  returned =>
    \A k \in 1..Len(parsed) :
      k \notin faults =>
        /\ parsed[k].url =
             IF FamilyUrl(lines[k], UrlPatternHttpCase) # <<>> THEN FamilyUrl(lines[k], UrlPatternHttpCase)
             ELSE IF FamilyUrl(lines[k], UrlPatternPath) # <<>> THEN FamilyUrl(lines[k], UrlPatternPath)
             ELSE FamilyUrl(lines[k], UrlPatternScheme)
        /\ OnlyOtherScheme(lines[k]) =>
             (parsed[k].url = FamilyUrl(lines[k], UrlPatternScheme)
                <=> FamilyUrl(lines[k], UrlPatternPath) = <<>>)
\* a line with ftp://host/file was parsed: the path family matches at the
\* two slashes, and the url is not the token
C21_Witness ==
  /\ returned
  /\ faults = {}
  /\ Len(parsed) = 1
  /\ lines[1] = <<"g","e","t"," ","f","t","p",":","/","/","h","o","s","t","/","f","i","l","e"," ","o","k">>
  /\ parsed[1].url = Some(<<"/","/","h","o","s","t","/","f","i","l","e">>)

-----------------------------------------------------------------------------
(* C22: the headers of a parsed record *)

HasColon(pair) == \E i \in 1..Len(pair) : pair[i] = ":"
FirstColon(pair) == CHOOSE i \in 1..Len(pair) : pair[i] = ":" /\ \A j \in 1..(i - 1) : pair[j] # ":"
\* the text before the first colon of the pair and the text after it, quotes
\* and surrounding white space removed
KeyOfPair(pair) == StripQuotes(SubSeq(pair, 1, FirstColon(pair) - 1))
ValueAfterFirstColon(pair) == StripQuotes(SubSeq(pair, FirstColon(pair) + 1, Len(pair)))
KeptPair(pair) == HasColon(pair) /\ Len(KeyOfPair(pair)) > 0 /\ Len(ValueAfterFirstColon(pair)) > 0
RECURSIVE PairsAtFirstColon(_, _)
PairsAtFirstColon(pairs, h) ==
  IF Len(pairs) = 0 THEN h
  ELSE PairsAtFirstColon(Tail(pairs),
                         IF KeptPair(pairs[1]) THEN SetEntry(h, KeyOfPair(pairs[1]), ValueAfterFirstColon(pairs[1]))
                         ELSE h)
HeadersAtFirstColon(line) ==
  IF match(line, HeadersPattern) = NoMatch THEN <<>>
  ELSE PairsAtFirstColon(split(Group1(line, match(line, HeadersPattern)), ","), <<>>)

\* C22: for every line parsed by the try block, each comma-separated pair of
\* the headers fragment is split at its first colon only: the value is all
\* that follows the first colon, further colons included, quotes and
\* surrounding white space removed; pairs with an empty key or value are
\* omitted, and headers is undefined when no pair remains or no fragment
\* matches.
C22_ValueIsAllAfterFirstColon ==
  returned =>
    \A k \in 1..Len(parsed) :
      k \notin faults =>
        parsed[k].headers =
          IF Len(HeadersAtFirstColon(lines[k])) > 0 THEN Some(HeadersAtFirstColon(lines[k])) ELSE Undefined

-----------------------------------------------------------------------------
(* C23: handleLogsUpload and its callers *)

\* the step replaces logs, or empties maskedLogs, or sets analysisResult to null
ReplacesOrResets ==
  \/ logs' # logs
  \/ maskedLogs # <<>> /\ maskedLogs' = <<>>
  \/ analysisResult # Null /\ analysisResult' = Null
\* the lists parseLogText returns for the texts submitted
UploadedLists == {UploadOf(t, now) : t \in UploadTexts, now \in 0..MaxClock}

\* C23: a step that replaces logs, empties maskedLogs or sets analysisResult
\* to null does all three at once, logs becoming the uploaded records, and
\* leaves filters, useOpenAI and openAIApiKey unchanged; the list is not empty
\* in a step of handleFile or handleTextSubmit, it is empty in a step of
\* clearUpload, and only clearUpload makes logs empty.
C23_UploadResetsDerivedState ==
  /\ [](logs \in UploadedLists \cup {<<>>})
  /\ [][/\ ReplacesOrResets =>
             /\ maskedLogs' = <<>>
             /\ analysisResult' = Null
             /\ filters' = filters
             /\ useOpenAI' = useOpenAI
             /\ openAIApiKey' = openAIApiKey
        /\ Len(logs') > 0 \/ ~(handleFile \/ handleTextSubmit)
        /\ logs' = <<>> \/ ~clearUpload
        /\ (ReplacesOrResets /\ logs' = <<>>) => clearUpload]_vars
\* records were uploaded after an analysis had set analysisResult, with a
\* level filter chosen and useOpenAI on: the raw answer of the service is
\* still there, the masked records and the result are not
C23_Witness ==
  /\ Len(logs) > 0
  /\ maskedLogs = <<>>
  /\ analysisResult = Null
  /\ aiRawResult # Null
  /\ filters # NoFilters
  /\ useOpenAI

-----------------------------------------------------------------------------
(* C24: uploads while the delay of handleMaskLogs is pending *)

\* C24: whenever maskedLogs is not empty it is the masking of the logs state:
\* as long as logs, with the ids of logs in their order, each record being
\* what the masking returns for the record of logs at its position.
C24_MaskedLogsOfCurrentLogs ==
  maskedLogs # <<>> =>
    /\ Len(maskedLogs) = Len(logs)
    /\ \A k \in 1..Len(maskedLogs) :
         /\ maskedLogs[k].id = logs[k].id
         /\ maskedLogs[k] = MaskEntryOf(logs[k]).ret

-----------------------------------------------------------------------------
(* C25: uploads and maskings while the call of handleAnalyzeLogs is pending *)

\* C25: whenever analysisResult is not null, its summary.totalLogs is the
\* length of maskedLogs.
C25_ResultOfCurrentMaskedLogs ==
  analysisResult # Null => analysisResult[1].summary.totalLogs = Len(maskedLogs)

-----------------------------------------------------------------------------
(* C26: the value handleAnalyzeLogs gives to analysisResult *)

SummaryCounts(summary) == summary.errorCount + summary.warningCount + summary.infoCount + summary.debugCount
\* the step in which a handleAnalyzeLogs run sets analysisResult
SetsAnalysisResult == analyzeJob # Null /\ analyzeJob' = Null /\ aiRawResult' # Null

\* C26: every value of analysisResult has the four level counts of its
\* summary adding up to totalLogs and exactly one element in insights; in the
\* step that sets it, totalLogs is the number of masked records that were
\* sent and the element of insights is the text the service returned.
C26_SummaryAddsUp ==
  /\ [](analysisResult # Null =>
          /\ SummaryCounts(analysisResult[1].summary) = analysisResult[1].summary.totalLogs
          /\ Len(analysisResult[1].insights) = 1)
  /\ [][SetsAnalysisResult =>
          /\ analysisResult' # Null
          /\ analysisResult'[1].summary.totalLogs = Len(analyzeJob[1])
          /\ analysisResult'[1].insights = <<aiRawResult'[1]>>
          /\ aiRawResult'[1] \in AiResults]_vars
\* a result was set for two masked records, an error and an info
C26_Witness ==
  /\ analysisResult # Null
  /\ analysisResult[1].summary.totalLogs = 2
  /\ analysisResult[1].summary.errorCount = 1
  /\ analysisResult[1].summary.infoCount = 1
  /\ Len(maskedLogs) = 2
  /\ aiRawResult = Some(analysisResult[1].insights[1])

-----------------------------------------------------------------------------
(* C27: the busy flags *)

\* C27: when the delay ends and the call of the service returns or throws,
\* isMasking, once true, becomes false again, and so does isAnalyzing; and
\* isAnalyzing becomes true only in a step taken while maskedLogs is not
\* empty.
C27_BusyFlagsReturn ==
  /\ isMasking ~> ~isMasking
  /\ isAnalyzing ~> ~isAnalyzing
  /\ [][(~isAnalyzing /\ isAnalyzing') => Len(maskedLogs) > 0]_vars
\* a masking and an analysis are both pending
C27_Witness ==
  /\ isMasking
  /\ isAnalyzing
  /\ maskJob # Null
  /\ analyzeJob # Null

-----------------------------------------------------------------------------
(* C28: the page of LogPreview *)

\* C28: in every reachable state of LogPreview currentPage is at least 1 and
\* at most max(1, totalPages), and the page displayed is not empty while
\* filteredLogs is not empty.
C28_PageWithinRange ==
  /\ 1 <= currentPage
  /\ currentPage <= Max(1, totalPages)
  /\ filteredLogs # <<>> => paginatedLogs # <<>>

-----------------------------------------------------------------------------
(* C29: the timestamp range filter and timestamps that do not parse *)

\* C29: while a timestamp range filter is active, every record retained has
\* a timestamp that parses to an instant within the inclusive bounds; a
\* record whose timestamp does not parse is not retained.
C29_RetainedOnlyWithinRange ==
  RangeActive(filters) =>
    \A i \in 1..Len(filteredLogs) :
      /\ ValidTimestamp(filteredLogs[i])
      /\ WithinInclusiveRange(filteredLogs[i], filters)

-----------------------------------------------------------------------------
(* C30: optional fields that are absent *)

\* C30: for every record handleMaskLogs maps, the record produced has url
\* undefined where the record mapped has url undefined, and headers
\* undefined where the record mapped has headers undefined.
C30_AbsentFieldsStayAbsent ==
  maskRun # Null =>
    \A k \in 1..Len(maskRun[1].mapped) :
      /\ maskRun[1].mapped[k].url = Undefined => maskRun[1].produced[k].url = Undefined
      /\ maskRun[1].mapped[k].headers = Undefined => maskRun[1].produced[k].headers = Undefined

====
